---------------------------- MODULE Spec2Model ----------------------------
(***************************************************************************)
(* A model of the OpenGreek TLG scripts: the discovery crawler             *)
(* (discover_tlg.py, tlg_integrated_extractor.py, tlg_visual_extractor.py, *)
(* full_html_downloader.py), the Greek text filter                         *)
(* (tlg_corrected_extractor.py) and the reference preserver / validator    *)
(* (tlg_reference_preservation.py).                                        *)
(*                                                                         *)
(* A page is represented by its length in characters (the only thing the   *)
(* discoverer reads of it); an absent result (Python None) by None.        *)
(* Sleeps are measured in units of the configured base delay.              *)
(***************************************************************************)
EXTENDS Integers, Sequences, FiniteSets, TLC

VARIABLES
    script,              \* which program runs: "discover" | "visual" | "download" | ...
    entry,               \* the method called first
    pc,                  \* position of the single coroutine
    max_retries,         \* CONFIG["extraction"]["max_retries"]
    index_authors,       \* the tlg_ids listed by the server's index page
    server_works,        \* the work IDs under which the server may hold a full page
    author_entries,      \* discover_all_authors: parsed index entries
    ai,                  \* discover_all_authors: loop position in author_entries
    processed_authors,   \* TLGDiscovery.processed_authors
    authors,             \* TLGDiscovery.authors
    tlg_id,              \* discover_author_works: the author being probed
    max_works,           \* discover_author_works: upper bound of the probe
    work_id,             \* discover_author_works: loop variable
    url_idx,             \* position in urls_to_try
    work_found,          \* discover_author_works: work_found
    consecutive_misses,  \* discover_author_works: consecutive_misses
    works,               \* discover_author_works: works
    probes,              \* results of the fetches made for the current candidate
    url,                 \* fetch_page: url
    attempt,             \* fetch_page: attempt
    content,             \* fetch_page's result / response.text()
    waits,               \* fetch_page: the sleeps made by the current call
    sent,                \* fetch_page: GETs issued by the current call
    caller,              \* who awaits fetch_page: "index" | "work" | "single"
    inflight,            \* HTTP requests sent and not yet answered
    requested,           \* whether any request was issued before
    slept,               \* whether a sleep completed since the last response
    unslept,             \* whether some request followed another without a sleep
    issued,              \* requests sent by the call so far, None where not counted
    catalog,             \* download_all_works: the catalogue's works, in order
    works_processed,     \* download_all_works: works_processed
    downloaded,          \* FullHTMLDownloader.downloaded
    failed,              \* FullHTMLDownloader.failed
    files,               \* the HTML files written so far
    mixed_text,          \* separate_greek_from_metadata: mixed_text (code points)
    li,                  \* separate_greek_from_metadata: lines already classified
    greek_lines,         \* separate_greek_from_metadata: greek_lines
    metadata_lines,      \* separate_greek_from_metadata: metadata_lines
    separated,           \* separate_greek_from_metadata: the returned dict
    author_data,         \* preserve_extraction_references: author_data
    work_data,           \* preserve_extraction_references: work_data
    clean_text,          \* preserve_extraction_references: clean_text (code points)
    tlg_reference,       \* the TLGReference built for the extraction
    validation_metrics,  \* ValidatedExtraction.validation_metrics
    argv,                \* author_catalog_tools: the parsed command line
    disk,                \* author_catalog_tools: the files, by path
    disk_before,         \* the files as they were when the command started
    soup,                \* parse_index_page: the rows of soup.find_all('tr')
    row_i,               \* parse_index_page: rows already visited
    parsed,              \* parse_index_page: authors
    program,             \* main: the script that was started
    items_done,          \* main: turns of the outermost loop that were completed
    raised,              \* main: the exception that reached the top level
    stdout,              \* main: the messages printed or logged at the top level
    exit_status,         \* the exit status of the process, None while it runs
    discovered_authors,  \* TLGIntegratedExtractor.discovered_authors
    priority_i,          \* extract_priority_authors: position in priority_authors
    wi,                  \* extract_priority_authors: position in works
    extracted_works,     \* TLGIntegratedExtractor.extracted_works
    processed_works,     \* TLGIntegratedExtractor.processed_works
    total_extracted,     \* TLGIntegratedExtractor.stats['total_extracted']
    corpus,              \* the corpus file written by save_results, << >> before
    checkpoints,         \* the checkpoint files written so far
    attempted,           \* the works extract_work_with_references was called for
    restarts,            \* how often the script was started again after an interrupt
    call_args,           \* extract_work_with_references: author_data and work_data
    returned,            \* what the calls of extract_work_with_references gave back
    stats,               \* TLGIntegratedExtractor.stats, the three extraction counters
    built_for,           \* the author ID and work number a work URL was built for
    url_text,            \* the work URL, as code points
    url_reference,       \* what parse_url_reference gave for url_text
    duplicate_groups,    \* cleanup_mac_duplicates: the groups, in the order of the dict
    group_i,             \* cleanup_mac_duplicates: groups already processed
    report,              \* the files remove_duplicates logged as removed or removable
    progress_file,       \* the text of DEVELOPMENT_PROGRESS.md, << >> while it is missing
    entry_log,           \* the entries add_development_progress_entry wrote, oldest first
    clock                \* the system clock, in seconds

crawl_vars == << script, entry, pc, max_retries, index_authors, server_works,
                 author_entries, ai,
                 processed_authors, authors, tlg_id, max_works, work_id, url_idx,
                 work_found, consecutive_misses, works, probes, url, attempt,
                 content, waits, sent, caller, inflight, requested, slept, unslept,
                 issued >>

dl_vars == << catalog, works_processed, downloaded, failed, files >>

filter_vars == << mixed_text, li, greek_lines, metadata_lines, separated >>

preserve_vars == << author_data, work_data, clean_text, tlg_reference,
                    validation_metrics >>

tool_vars == << argv, disk, disk_before >>

parse_vars == << soup, row_i, parsed >>

main_vars == << program, items_done, raised, stdout, exit_status >>

run_vars == << discovered_authors, priority_i, wi, extracted_works, processed_works,
              total_extracted, corpus, checkpoints, attempted >>

call_vars == << call_args, returned, stats >>

\* the variables of the operations modelled last
trip_vars == << built_for, url_text, url_reference >>

cleanup_vars == << duplicate_groups, group_i, report >>

progress_vars == << progress_file, entry_log, clock >>

late_vars == << call_vars, trip_vars, cleanup_vars, progress_vars >>

more_vars == << parse_vars, main_vars, run_vars, restarts, late_vars >>

\* text_vars but for the checkpoint files
text_vars_less == << filter_vars, preserve_vars, tool_vars, parse_vars, main_vars,
                    discovered_authors, priority_i, wi, extracted_works,
                    processed_works, total_extracted, corpus, attempted, restarts,
                    late_vars >>

text_vars == << filter_vars, preserve_vars, tool_vars, more_vars >>

vars == << crawl_vars, dl_vars, text_vars >>

-----------------------------------------------------------------------------
(* Bounds of the model *)

MaxWorks == 22          \* largest max_works passed to discover_author_works
MaxRetries == 2         \* largest configured max_retries
MaxAuthors == 2         \* most rows on the index page
MaxCatalog == 2         \* most works in the downloader's catalogue
MaxFetchRetries == 4    \* largest max_retries of a single fetch_page call

(* Program constants *)

max_consecutive_misses == 20
MinContent == 1000
DefaultMaxWorks == 999
None == -1

BASE_URL == "http://217.71.231.54:8080"
INDEX_URL == BASE_URL \o "/indices/indexA.htm"

AuthorIds == {"0012", "59"}

\* Work IDs under which the server may hold a page above the threshold: two
\* neighbours and one that lies a run of misses further on.
LongPageIds == {1, 2, max_consecutive_misses + 1}

\* The index listings the server may hold: the first rows of these.
IndexListings == { << "0012", "59", "0012" >>, << "0012", "0012", "59" >> }

\* Lengths of the pages a 200 response may carry.
ShortLens == {0, MinContent - 1, MinContent}
LongLens == {MinContent + 1}

RECURSIVE Pow2(_)
Pow2(k) == IF k = 0 THEN 1 ELSE 2 * Pow2(k - 1)

\* a variant that does not pad
Pad3_unpadded(n) == ToString(n)

\* f"{work_id:03d}"
Pad3(n) == IF n < 10 THEN "00" \o ToString(n)
           ELSE IF n < 100 THEN "0" \o ToString(n)
           ELSE ToString(n)

\* a variant that probes the encoded form first
urls_to_try_swapped(a, w) ==
    << BASE_URL \o "/TLG" \o a \o "/" \o a \o "%5F" \o Pad3(w) \o ".htm",
       BASE_URL \o "/TLG" \o a \o "/" \o a \o "_" \o Pad3(w) \o ".htm" >>

\* urls_to_try of discover_author_works
urls_to_try(a, w) ==
    << BASE_URL \o "/TLG" \o a \o "/" \o a \o "_" \o Pad3(w) \o ".htm",
       BASE_URL \o "/TLG" \o a \o "/" \o a \o "%5F" \o Pad3(w) \o ".htm" >>

\* a variant that takes the empty page for content
Truthy_not_none(c) == c # None

\* Python truthiness of Optional[str]: None and "" are falsy
Truthy(c) == c # None /\ c > 0

\* TLGWork(work_id, title, url, estimated_size)
TLGWork(w, u, c) ==
    [work_id |-> Pad3(w), title |-> "Work " \o Pad3(w), url |-> u, estimated_size |-> c]


\* the dict appended by TLGIntegratedExtractor.discover_author_works
WorkDict(w, u, c) == [work_id |-> Pad3(w), url |-> u, estimated_size |-> c]

\* a variant that takes any non-empty page for a work
IsSubstantial_any(c) == c > 0

\* Minimum content threshold of the discoverers: len(content) > 1000
IsSubstantial(c) == c > MinContent

\* a variant with a linear backoff
BackoffWait_linear(k) == k + 1

\* (2 ** attempt) * base_delay, in units of base_delay
BackoffWait(k) == Pow2(k)

\* a variant that stops one miss late
MissLimitReached_late(m) == m > max_consecutive_misses

\* if consecutive_misses >= max_consecutive_misses: break
MissLimitReached(m) == m >= max_consecutive_misses

-----------------------------------------------------------------------------
(* The HTTP session: one GET, awaited by the coroutine that issued it *)

\* session.get(url) is entered: the request leaves
SessionGet ==
    /\ inflight' = inflight + 1
    /\ requested' = TRUE
    /\ unslept' = (unslept \/ (requested /\ ~slept))
    /\ slept' = slept
    /\ issued' = IF issued = None THEN None ELSE issued + 1

\* the response (or the error) arrives; nap tells whether the handler then sleeps
SessionAnswer(nap) ==
    /\ inflight' = inflight - 1
    /\ slept' = nap
    /\ UNCHANGED << requested, unslept, issued >>

\* asyncio.sleep with no request involved
SleepOnly(nap) ==
    /\ slept' = (slept \/ nap)
    /\ UNCHANGED << inflight, requested, unslept, issued >>

-----------------------------------------------------------------------------
(* fetch_page(url): the retry loop *)

fetch_frame == << dl_vars, text_vars, script, entry, max_retries, index_authors, server_works,
                  author_entries, ai,
                  processed_authors, authors, tlg_id, max_works, work_id, url_idx,
                  work_found, consecutive_misses, works, probes, caller >>

\* the call: for attempt in range(max_retries)
CallFetch(u, c) ==
    /\ url' = u
    /\ caller' = c
    /\ attempt' = 0
    /\ waits' = << >>
    /\ sent' = 0
    /\ content' = None
    /\ pc' = "fetch"

\* a variant that does not await the response before it goes on
FetchGet_unawaited ==
    /\ pc = "fetch"
    /\ attempt < max_retries
    /\ SessionGet
    /\ sent' = sent + 1
    /\ attempt' = attempt + 1
    /\ pc' = "fetch"
    /\ UNCHANGED << fetch_frame, url, content, waits >>

\* async with self.session.get(url) as response
FetchGet ==
    /\ pc = "fetch"
    /\ attempt < max_retries
    /\ SessionGet
    /\ sent' = sent + 1
    /\ pc' = "await"
    /\ UNCHANGED << fetch_frame, url, attempt, content, waits >>

\* the loop is exhausted: return None
FetchExhausted ==
    /\ pc = "fetch"
    /\ attempt >= max_retries
    /\ content' = None
    /\ pc' = "ret"
    /\ SleepOnly(FALSE)
    /\ UNCHANGED << fetch_frame, url, attempt, waits, sent >>

\* response.status == 200: return await response.text()
FetchOk(len) ==
    /\ pc = "await"
    /\ SessionAnswer(FALSE)
    /\ content' = len
    /\ pc' = "ret"
    /\ UNCHANGED << fetch_frame, url, attempt, waits, sent >>

\* response.status in retry_on_status: sleep (2 ** attempt) * delay; continue
FetchRetryStatus ==
    /\ pc = "await"
    /\ SessionAnswer(TRUE)
    /\ waits' = Append(waits, BackoffWait(attempt))
    /\ attempt' = attempt + 1
    /\ pc' = "fetch"
    /\ UNCHANGED << fetch_frame, url, content, sent >>

\* any other status: return None
FetchOtherStatus ==
    /\ pc = "await"
    /\ SessionAnswer(FALSE)
    /\ content' = None
    /\ pc' = "ret"
    /\ UNCHANGED << fetch_frame, url, attempt, waits, sent >>

\* except Exception: sleep only if another attempt remains
FetchException ==
    /\ pc = "await"
    /\ IF attempt < max_retries - 1
         THEN /\ SessionAnswer(TRUE)
              /\ waits' = Append(waits, BackoffWait(attempt))
         ELSE /\ SessionAnswer(FALSE)
              /\ waits' = waits
    /\ attempt' = attempt + 1
    /\ pc' = "fetch"
    /\ UNCHANGED << fetch_frame, url, content, sent >>


\* fetch_page has returned: its locals are gone
DropFetchFrame ==
    /\ url' = ""
    /\ attempt' = 0
    /\ waits' = << >>
    /\ sent' = 0
    /\ content' = None

-----------------------------------------------------------------------------
(* TLGDiscovery.discover_author_works (and TLGIntegratedExtractor's copy) *)

works_frame == << dl_vars, text_vars, script, entry, max_retries, index_authors, server_works,
                  author_entries, ai,
                  processed_authors, authors, tlg_id, max_works >>

\* the code after the url loop: count the miss, break or sleep, next work_id
CandidateDone(found, nap) ==
    IF found
      THEN /\ consecutive_misses' = 0
           /\ work_id' = work_id + 1
           /\ pc' = "works_loop"
           /\ SleepOnly(nap)
      ELSE /\ consecutive_misses' = consecutive_misses + 1
           /\ IF MissLimitReached(consecutive_misses + 1)
                THEN /\ work_id' = work_id
                     /\ pc' = "works_return"
                     /\ SleepOnly(FALSE)
                ELSE /\ work_id' = work_id + 1
                     /\ pc' = "works_loop"
                     /\ SleepOnly(nap)

\* for work_id in range(1, max_works + 1): ... content = await self.fetch_page(urls_to_try[0])
WorksLoop ==
    /\ pc = "works_loop"
    /\ script \in { "discover", "integrated" }
    /\ IF work_id > max_works
         THEN /\ pc' = "works_return"
              /\ UNCHANGED << url_idx, work_found, probes, url, attempt, waits, sent,
                              content, caller >>
         ELSE /\ url_idx' = 1
              /\ work_found' = FALSE
              /\ probes' = << >>
              /\ CallFetch(urls_to_try(tlg_id, work_id)[1], "work")
    /\ SleepOnly(FALSE)
    /\ UNCHANGED << works_frame, work_id, consecutive_misses, works >>

\* fetch_page returned to the url loop: record the work, try the next url or finish
WorkFetched ==
    /\ pc = "ret"
    /\ caller = "work"
    /\ probes' = Append(probes, [w |-> work_id, url |-> url, content |-> content])
    /\ IF Truthy(content) /\ IsSubstantial(content)
         THEN /\ works' = Append(works, IF script = "integrated"
                                          THEN WorkDict(work_id, url, content)
                                          ELSE TLGWork(work_id, url, content))
              /\ work_found' = TRUE
              /\ CandidateDone(TRUE, TRUE)
              /\ DropFetchFrame
              /\ UNCHANGED << url_idx, caller >>
         ELSE IF url_idx < Len(urls_to_try(tlg_id, work_id))
           THEN /\ url_idx' = url_idx + 1
                /\ CallFetch(urls_to_try(tlg_id, work_id)[url_idx + 1], "work")
                /\ SleepOnly(FALSE)
                /\ UNCHANGED << works, work_found, consecutive_misses, work_id >>
           ELSE /\ CandidateDone(FALSE, TRUE)
                /\ DropFetchFrame
                /\ UNCHANGED << works, work_found, url_idx, caller >>
    /\ UNCHANGED works_frame

discover_checkpoint_every == 50

\* save_checkpoint of the discoverer
DiscoveryCheckpoint(pa) == [script |-> "discover", processed_authors |-> pa]

\* return works
WorksReturn ==
    /\ pc = "works_return"
    /\ entry # "extract"
    /\ IF entry = "all"
         THEN /\ authors' = [a \in DOMAIN authors \cup {tlg_id} |->
                               IF a = tlg_id
                                 THEN [tlg_id |-> tlg_id, work_count |-> Len(works),
                                       works |-> works, discovery_method |-> "index_crawl"]
                                 ELSE authors[a]]
              /\ processed_authors' = processed_authors \cup {tlg_id}
              /\ ai' = ai + 1
              /\ works' = << >>
              /\ probes' = << >>
              /\ checkpoints' = IF ai % discover_checkpoint_every = 0
                                  THEN Append(checkpoints,
                                              DiscoveryCheckpoint(processed_authors'))
                                  ELSE checkpoints
              /\ pc' = "author_loop"
         ELSE /\ pc' = "done"
              /\ UNCHANGED << authors, processed_authors, ai, works, probes, checkpoints >>
    /\ SleepOnly(FALSE)
    /\ UNCHANGED << dl_vars, text_vars_less, script, entry, max_retries, index_authors, server_works,
                    author_entries, tlg_id, max_works, work_id, url_idx, work_found, consecutive_misses,
                    url, attempt, content, waits, sent, caller >>

-----------------------------------------------------------------------------
(* TLGDiscovery.discover_all_authors *)

\* index_content = await self.fetch_page(INDEX_URL)
DiscoverAll ==
    /\ pc = "start"
    /\ entry = "all"
    /\ CallFetch(INDEX_URL, "index")
    /\ SleepOnly(FALSE)
    /\ UNCHANGED << works_frame, work_id, url_idx, work_found, consecutive_misses,
                    works, probes >>

\* if not index_content: return {} -- else parse_index_page
IndexFetched ==
    /\ pc = "ret"
    /\ caller = "index"
    /\ entry = "all"
    /\ IF Truthy(content)
         THEN /\ author_entries' = index_authors
              /\ ai' = 1
              /\ pc' = "author_loop"
         ELSE /\ pc' = "done"
              /\ UNCHANGED << author_entries, ai >>
    /\ DropFetchFrame
    /\ SleepOnly(FALSE)
    /\ UNCHANGED << dl_vars, text_vars, script, entry, max_retries, index_authors, server_works,
                    processed_authors, authors, tlg_id, max_works, work_id, url_idx, work_found,
                    consecutive_misses, works, probes, caller >>

\* for i, entry in enumerate(author_entries, 1): skip processed, else discover works
AuthorLoop ==
    /\ pc = "author_loop"
    /\ IF ai > Len(author_entries)
         THEN /\ pc' = "done"
              /\ UNCHANGED << ai, tlg_id, max_works, work_id, consecutive_misses, works >>
         ELSE IF author_entries[ai] \in processed_authors
           THEN /\ ai' = ai + 1
                /\ UNCHANGED << pc, tlg_id, max_works, work_id, consecutive_misses, works >>
           ELSE /\ tlg_id' = author_entries[ai]
                /\ max_works' = DefaultMaxWorks
                /\ work_id' = 1
                /\ consecutive_misses' = 0
                /\ works' = << >>
                /\ pc' = "works_loop"
                /\ UNCHANGED ai
    /\ SleepOnly(FALSE)
    /\ UNCHANGED << dl_vars, text_vars, script, entry, max_retries, index_authors, server_works,
                    author_entries, processed_authors, authors, url_idx, work_found, probes, url,
                    attempt, content, waits, sent, caller >>

-----------------------------------------------------------------------------
(* TLGVisualExtractor.discover_works_for_author_visual: no fetch_page, the     *)
(* session is used directly, and the delay comes every tenth work_id           *)

\* if work_id % 10 == 0: await asyncio.sleep(base_delay)
VisualNap(w) == w % 10 = 0

\* for work_id in range(1, max_works + 1): ... for url in urls_to_try
VisualLoop ==
    /\ pc = "works_loop"
    /\ script = "visual"
    /\ IF work_id > max_works
         THEN /\ pc' = "works_return"
              /\ UNCHANGED << url_idx, work_found, probes, url >>
         ELSE /\ url_idx' = 1
              /\ work_found' = FALSE
              /\ probes' = << >>
              /\ url' = urls_to_try(tlg_id, work_id)[1]
              /\ pc' = "v_get"
    /\ SleepOnly(FALSE)
    /\ UNCHANGED << works_frame, work_id, consecutive_misses, works, attempt, waits,
                    sent, content, caller >>

\* async with self.session.get(url) as response
VisualGet ==
    /\ pc = "v_get"
    /\ SessionGet
    /\ pc' = "v_await"
    /\ UNCHANGED << works_frame, work_id, url_idx, work_found, consecutive_misses,
                    works, probes, url, attempt, waits, sent, content, caller >>

\* what follows one answer (c: the page, or None for a bad status or an error)
VisualAnswered(c) ==
    /\ pc = "v_await"
    /\ probes' = Append(probes, [w |-> work_id, url |-> url, content |-> c])
    /\ inflight' = inflight - 1
    /\ UNCHANGED << requested, unslept, issued >>
    /\ IF c # None /\ IsSubstantial(c)
         THEN /\ works' = Append(works, [work_id |-> Pad3(work_id), url |-> url,
                                         estimated_size |-> c])
              /\ work_found' = TRUE
              /\ consecutive_misses' = 0
              /\ work_id' = work_id + 1
              /\ pc' = "works_loop"
              /\ slept' = VisualNap(work_id)
              /\ url' = ""
              /\ UNCHANGED url_idx
         ELSE IF url_idx < Len(urls_to_try(tlg_id, work_id))
           THEN /\ url_idx' = url_idx + 1
                /\ url' = urls_to_try(tlg_id, work_id)[url_idx + 1]
                /\ pc' = "v_get"
                /\ slept' = FALSE
                /\ UNCHANGED << works, work_found, consecutive_misses, work_id >>
           ELSE /\ consecutive_misses' = consecutive_misses + 1
                /\ IF MissLimitReached(consecutive_misses + 1)
                     THEN /\ work_id' = work_id
                          /\ pc' = "works_return"
                          /\ slept' = FALSE
                     ELSE /\ work_id' = work_id + 1
                          /\ pc' = "works_loop"
                          /\ slept' = VisualNap(work_id)
                /\ url' = ""
                /\ UNCHANGED << works, work_found, url_idx >>
    /\ UNCHANGED << works_frame, attempt, waits, sent, content, caller >>

\* response.status == 200: content = await response.text()
VisualOk(len) == VisualAnswered(len)

\* any other status: nothing happens in the with block
VisualOtherStatus == VisualAnswered(None)

\* except Exception: continue
VisualException == VisualAnswered(None)

-----------------------------------------------------------------------------
(* FullHTMLDownloader.download_all_works / download_work_html *)

dl_frame == << text_vars_less, script, entry, max_retries, index_authors, server_works,
               author_entries, ai,
               processed_authors, authors, tlg_id, max_works, work_id, url_idx,
               work_found, consecutive_misses, works, probes, attempt, content,
               waits, sent, caller, catalog >>

download_checkpoint_every == 1000

\* save_checkpoint of the downloader
DownloadCheckpoint(n, d, f) ==
    [script |-> "download", works_processed |-> n, downloaded |-> d, failed |-> f]

\* url of download_work_html
DownloadUrl(a, w) == BASE_URL \o "/TLG" \o a \o "/" \o a \o "_" \o w \o ".htm"

\* for author_key ...: for work_key ...: the two loops walk the works in order
DownloadLoop ==
    /\ pc = "dl_loop"
    /\ IF works_processed < Len(catalog)
         THEN /\ url' = DownloadUrl(catalog[works_processed + 1].author_id,
                                    catalog[works_processed + 1].work_id)
              /\ pc' = "dl_get"
         ELSE /\ pc' = "done"
              /\ url' = url
    /\ SleepOnly(FALSE)
    /\ UNCHANGED << dl_frame, works_processed, downloaded, failed, files, checkpoints >>

\* async with self.session.get(url) as response
DownloadGet ==
    /\ pc = "dl_get"
    /\ SessionGet
    /\ pc' = "dl_await"
    /\ UNCHANGED << dl_frame, url, works_processed, downloaded, failed, files,
                    checkpoints >>

\* back in download_all_works: works_processed += 1; await asyncio.sleep(1.2)
DownloadAnswered(ok) ==
    /\ pc = "dl_await"
    /\ SessionAnswer(TRUE)
    /\ IF ok
         THEN /\ files' = files \cup {"TLG" \o catalog[works_processed + 1].author_id
                                      \o "_" \o catalog[works_processed + 1].work_id}
              /\ downloaded' = downloaded + 1
              /\ failed' = failed
         ELSE /\ failed' = failed + 1
              /\ UNCHANGED << files, downloaded >>
    /\ works_processed' = works_processed + 1
    /\ checkpoints' = IF (works_processed + 1) % download_checkpoint_every = 0
                        THEN Append(checkpoints,
                                    DownloadCheckpoint(works_processed + 1, downloaded',
                                                       failed'))
                        ELSE checkpoints
    /\ url' = ""
    /\ pc' = "dl_loop"
    /\ UNCHANGED dl_frame

\* response.status == 200: the file is written, return True
DownloadOk == DownloadAnswered(TRUE)

\* any other status: return False
DownloadBadStatus == DownloadAnswered(FALSE)

\* except Exception: return False
DownloadException == DownloadAnswered(FALSE)

-----------------------------------------------------------------------------
(* The crawls *)

\* all sequences over S of length at most n
RECURSIVE SeqsUpTo(_, _)
SeqsUpTo(S, n) ==
    IF n = 0 THEN { << >> }
    ELSE SeqsUpTo(S, n - 1) \cup
         { Append(q, x) : q \in { r \in SeqsUpTo(S, n - 1) : Len(r) = n - 1 }, x \in S }

CatalogWorks == { [author_id |-> "0012", work_id |-> "001"],
                  [author_id |-> "0012", work_id |-> "002"],
                  [author_id |-> "0059", work_id |-> "030"] }

\* the lengths the server may answer with, given what is being asked
ServerLens ==
    IF caller = "work" /\ work_id \notin server_works THEN ShortLens
    ELSE IF caller = "index" THEN {0} \cup LongLens
    ELSE ShortLens \cup LongLens

VisualServerLens ==
    IF work_id \in server_works THEN ShortLens \cup LongLens ELSE ShortLens

InitRest ==
    /\ author_entries = << >>
    /\ ai = 0
    /\ processed_authors = {}
    /\ authors = << >>
    /\ work_id = 1
    /\ url_idx = 1
    /\ work_found = FALSE
    /\ consecutive_misses = 0
    /\ works = << >>
    /\ probes = << >>
    /\ attempt = 0
    /\ content = None
    /\ waits = << >>
    /\ sent = 0
    /\ inflight = 0
    /\ requested = FALSE
    /\ slept = FALSE
    /\ unslept = FALSE
    /\ works_processed = 0
    /\ downloaded = 0
    /\ failed = 0
    /\ files = {}

\* no text is being filtered
InitFilterIdle ==
    /\ mixed_text = << >>
    /\ li = 0
    /\ greek_lines = << >>
    /\ metadata_lines = << >>
    /\ separated = None

\* no extraction is being preserved
InitPreserveIdle ==
    /\ author_data = None
    /\ work_data = None
    /\ clean_text = << >>
    /\ tlg_reference = None
    /\ validation_metrics = None

\* no catalogue command is running
InitToolsIdle ==
    /\ argv = None
    /\ disk = << >>
    /\ disk_before = << >>

InitParseIdle ==
    /\ soup = << >>
    /\ row_i = 0
    /\ parsed = << >>

InitMainIdle ==
    /\ program = ""
    /\ items_done = 0
    /\ raised = "none"
    /\ stdout = << >>
    /\ exit_status = None

InitRunIdle ==
    /\ discovered_authors = << >>
    /\ priority_i = 0
    /\ wi = 0
    /\ extracted_works = << >>
    /\ processed_works = {}
    /\ total_extracted = 0
    /\ corpus = << >>
    /\ checkpoints = << >>
    /\ attempted = {}

\* the cleanup script is not running
InitCleanupIdle ==
    /\ duplicate_groups = << >>
    /\ group_i = 0
    /\ report = << >>

\* no progress entry was added
InitProgressIdle ==
    /\ progress_file = << >>
    /\ entry_log = << >>
    /\ clock = 0

\* no work URL was built
InitTripIdle ==
    /\ built_for = << >>
    /\ url_text = << >>
    /\ url_reference = << >>

\* no call of extract_work_with_references was made
InitCallIdle ==
    /\ call_args = << >>
    /\ returned = << >>
    /\ stats = [successful_extractions |-> 0, failed_extractions |-> 0,
                validation_failures |-> 0]

\* the variables of the operations that are not running, but for one group of them
InitMoreIdleExcept(group) ==
    /\ IF group = "call" THEN TRUE ELSE InitCallIdle
    /\ IF group = "trip" THEN TRUE ELSE InitTripIdle
    /\ IF group = "cleanup" THEN TRUE ELSE InitCleanupIdle
    /\ IF group = "progress" THEN TRUE ELSE InitProgressIdle
    /\ IF group = "parse" THEN TRUE ELSE InitParseIdle
    /\ IF group = "main" THEN TRUE ELSE InitMainIdle
    /\ IF group = "run" THEN TRUE ELSE InitRunIdle
    /\ restarts = 0

InitMoreIdle == InitMoreIdleExcept("")

InitTextIdle ==
    /\ InitMoreIdle
    /\ InitFilterIdle
    /\ InitPreserveIdle
    /\ InitToolsIdle

InitIdle ==
    /\ InitRest
    /\ issued = None
    /\ url = ""
    /\ caller = ""

\* one call of discover_author_works / discover_works_for_author_visual
InitWorks ==
    /\ InitIdle
    /\ InitTextIdle
    /\ entry = "works"
    /\ pc = "works_loop"
    /\ index_authors = << >>
    /\ server_works = LongPageIds
    /\ tlg_id = "0012"
    /\ catalog = << >>
    /\ \/ /\ script = "discover"
          /\ max_retries \in 1..MaxRetries
          /\ max_works \in {2, max_consecutive_misses, MaxWorks}
       \/ /\ script = "visual"
          /\ max_retries = 1
          /\ max_works = DefaultMaxWorks

\* one run of discover_all_authors, or of download_all_works
InitCrawl ==
    /\ InitIdle
    /\ InitTextIdle
    /\ tlg_id = ""
    /\ max_works = DefaultMaxWorks
    /\ \/ /\ script = "discover"
          /\ entry = "all"
          /\ pc = "start"
          /\ max_retries \in 1..MaxRetries
          /\ index_authors \in { SubSeq(l, 1, n) : l \in IndexListings, n \in 0..MaxAuthors }
          /\ server_works = {1}
          /\ catalog = << >>
       \/ /\ script = "download"
          /\ entry = "download"
          /\ pc = "dl_loop"
          /\ max_retries = 1
          /\ index_authors = << >>
          /\ server_works = {}
          /\ catalog \in SeqsUpTo(CatalogWorks, MaxCatalog)

NextFetch ==
    \/ FetchGet
    \/ FetchExhausted
    \/ \E len \in ServerLens : FetchOk(len)
    \/ FetchRetryStatus
    \/ FetchOtherStatus
    \/ FetchException

\* back at the caller of a single fetch_page call
FetchReturn ==
    /\ pc = "ret"
    /\ caller = "single"
    /\ pc' = "done"
    /\ SleepOnly(FALSE)
    /\ UNCHANGED << fetch_frame, url, attempt, content, waits, sent >>

\* one call of fetch_page(url)
InitFetch ==
    /\ InitRest
    /\ issued = None
    /\ InitTextIdle
    /\ pc = "fetch"
    /\ caller = "single"
    /\ url \in { INDEX_URL, urls_to_try("0012", 1)[1], urls_to_try("0012", 1)[2] }
    /\ script = "discover"
    /\ entry = "fetch"
    /\ index_authors = << >>
    /\ server_works = {}
    /\ tlg_id = "0012"
    /\ max_works = DefaultMaxWorks
    /\ catalog = << >>
    /\ max_retries \in 1..MaxFetchRetries

NextWorks ==
    \/ NextFetch
    \/ WorksLoop
    \/ WorkFetched
    \/ WorksReturn
    \/ VisualLoop
    \/ VisualGet
    \/ \E len \in VisualServerLens : VisualOk(len)
    \/ VisualOtherStatus
    \/ VisualException

NextCrawl ==
    \/ NextFetch
    \/ WorksLoop
    \/ WorkFetched
    \/ WorksReturn
    \/ DiscoverAll
    \/ IndexFetched
    \/ AuthorLoop
    \/ DownloadLoop
    \/ DownloadGet
    \/ DownloadOk
    \/ DownloadBadStatus
    \/ DownloadException

SpecFetch == InitFetch /\ [][NextFetch \/ FetchReturn]_vars

\* one run of discover_all_authors with a server that holds the first two
\* works of every author
InitListing ==
    /\ InitIdle
    /\ InitTextIdle
    /\ tlg_id = ""
    /\ max_works = DefaultMaxWorks
    /\ script = "discover"
    /\ entry = "all"
    /\ pc = "start"
    /\ max_retries = 1
    /\ index_authors \in { SubSeq(l, 1, n) : l \in IndexListings, n \in 0..MaxAuthors }
    /\ server_works = {1, 2}
    /\ catalog = << >>

NextListing ==
    \/ NextFetch
    \/ WorksLoop
    \/ WorkFetched
    \/ WorksReturn
    \/ DiscoverAll
    \/ IndexFetched
    \/ AuthorLoop

SpecListing == InitListing /\ [][NextListing]_vars

\* one call of discover_author_works(tlg_id, max_works) whose requests are counted
InitBudget ==
    /\ InitRest
    /\ InitTextIdle
    /\ issued = 0
    /\ url = ""
    /\ caller = ""
    /\ script = "discover"
    /\ entry = "works"
    /\ pc = "works_loop"
    /\ index_authors = << >>
    /\ server_works = LongPageIds
    /\ tlg_id = "0012"
    /\ catalog = << >>
    /\ max_retries \in 1..MaxRetries
    /\ max_works \in {2, MaxWorks}

\* the server's pages: empty, just too short, long enough
BudgetLens == ServerLens \cap {0, MinContent, MinContent + 1}

NextBudget ==
    \/ FetchGet
    \/ FetchExhausted
    \/ \E len \in BudgetLens : FetchOk(len)
    \/ FetchRetryStatus
    \/ FetchOtherStatus
    \/ FetchException
    \/ WorksLoop
    \/ WorkFetched
    \/ WorksReturn

\* the event loop runs the coroutine whenever it can go on, and every request
\* ends with a response or, at the session's timeout, with an exception
SpecBudget == InitBudget /\ [][NextBudget]_vars /\ WF_vars(NextBudget)

SpecWorks == InitWorks /\ [][NextWorks]_vars

SpecCrawl == InitCrawl /\ [][NextCrawl]_vars

-----------------------------------------------------------------------------
(* GreekTextFilter.separate_greek_from_metadata.  A text is the sequence of  *)
(* its Unicode code points; the code's ratios are kept as integer            *)
(* comparisons (greek_chars / total_chars > 0.5 is 2 * greek_chars >         *)
(* total_chars).                                                             *)

MaxChunks == 4          \* most pieces of Lexicon in one mixed_text

LongLine == 20          \* len(line) > 20

\* the pieces the input texts are made of
GreekTen == << 956, 8134, 957, 953, 957, 7940, 949, 953, 948, 949 >>      \* ten Greek letters, some polytonic
GreekOne == << 8048 >>                                           \* U+1F70
Editorial == << 101, 100, 46, 32, 65, 108, 108, 101, 110 >>   \* "ed. Allen"
Lexicon ==
    { GreekTen, GreekOne, Editorial,
      << 120 >>,                                   \* "x"
      << 32 >>,                                    \* " "
      << 10 >>,                                    \* "\n"
      << 84, 101, 117, 98, 110, 101, 114 >>,        \* "Teubner"
      << 115, 111, 117, 114, 99, 101, 58 >>,        \* "source:"
      << 40, 53, 32, 66, 46, 67, 46, 41 >>,           \* "(5 B.C.)"
      << 84, 76, 71, 32, 49, 32, 50, 32, 58, 58 >> }  \* "TLG 1 2 ::"

RECURSIVE Texts(_)
Texts(n) ==
    IF n = 0 THEN { << >> }
    ELSE LET shorter == Texts(n - 1)
         IN  shorter \cup { t \o c : t \in shorter, c \in Lexicon }

\* str.isspace
IsSpace(c) ==
    \/ c \in 9..13
    \/ c \in 28..32
    \/ c \in { 133, 160, 5760, 8232, 8233, 8239, 8287, 12288 }
    \/ c \in 8192..8202

\* mixed_text.split('\n')
RECURSIVE Split(_)
Split(s) ==
    IF \A i \in 1..Len(s) : s[i] # 10
      THEN << s >>
      ELSE LET i == CHOOSE k \in 1..Len(s) :
                        s[k] = 10 /\ \A j \in 1..(k - 1) : s[j] # 10
           IN  << SubSeq(s, 1, i - 1) >> \o Split(SubSeq(s, i + 1, Len(s)))

\* '\n'.join(lines)
RECURSIVE Join(_)
Join(ls) ==
    IF ls = << >> THEN << >>
    ELSE IF Len(ls) = 1 THEN ls[1]
    ELSE ls[1] \o << 10 >> \o Join(Tail(ls))

\* line.strip()
Strip(s) ==
    IF \A i \in 1..Len(s) : IsSpace(s[i])
      THEN << >>
      ELSE LET first == CHOOSE i \in 1..Len(s) :
                            ~IsSpace(s[i]) /\ \A j \in 1..(i - 1) : IsSpace(s[j])
               last == CHOOSE i \in 1..Len(s) :
                            ~IsSpace(s[i]) /\ \A j \in (i + 1)..Len(s) : IsSpace(s[j])
           IN  SubSeq(s, first, last)

\* re.IGNORECASE: the characters that match a letter of the patterns
\* (A-Z, and the dotted / dotless i, the long s and the Kelvin sign)
CaseFold(c) ==
    IF c \in 65..90 THEN c + 32
    ELSE IF c \in { 304, 305 } THEN 105
    ELSE IF c = 383 THEN 115
    ELSE IF c = 8490 THEN 107
    ELSE c

\* the literal lit (in lower case) matches s at position i
HasAt(s, i, lit) ==
    /\ i >= 1
    /\ i + Len(lit) - 1 <= Len(s)
    /\ \A k \in 1..Len(lit) : CaseFold(s[i + k - 1]) = lit[k]

\* re.search of a literal pattern
Search(lit, s) == \E i \in 1..Len(s) : HasAt(s, i, lit)

\* \d on the characters of the texts
IsDigit(c) == c \in 48..57

\* \d+ matches exactly s[i..j]
Digits(s, i, j) ==
    /\ i <= j
    /\ j <= Len(s)
    /\ \A k \in i..j : IsDigit(s[k])

\* re.search(r'TLG \d+ \d+ ::', s, re.IGNORECASE)
SearchHeader(s) ==
    \E i \in 1..Len(s) :
        /\ HasAt(s, i, << 116, 108, 103, 32 >>)
        /\ \E a \in (i + 4)..Len(s) :
              /\ Digits(s, i + 4, a)
              /\ HasAt(s, a + 1, << 32 >>)
              /\ \E b \in (a + 2)..Len(s) :
                    /\ Digits(s, a + 2, b)
                    /\ HasAt(s, b + 1, << 32, 58, 58 >>)

\* re.search(r'\([^)]*B\.C\.\)', s, re.IGNORECASE), and the same for A.D.
SearchEra(era, s) ==
    \E i \in 1..Len(s) :
        /\ s[i] = 40
        /\ \E j \in (i + 1)..Len(s) :
              /\ HasAt(s, j, era)
              /\ \A k \in (i + 1)..(j - 1) : s[k] # 41

\* the literal patterns of metadata_patterns, in lower case
metadata_patterns ==
    { << 115, 111, 117, 114, 99, 101, 58 >>,            \* Source:
      << 99, 105, 116, 97, 116, 105, 111, 110, 58 >>,   \* Citation:
      << 99, 102, 46, 32, 101, 116 >>,                  \* Cf. et
      << 115, 99, 104, 111, 108, 105, 97, 58 >>,       \* Scholia:
      << 118, 105, 116, 97, 101, 58 >>,                 \* Vitae:
      << 111, 120, 102, 111, 114, 100, 58 >>,            \* Oxford:
      << 108, 101, 105, 112, 122, 105, 103, 58 >>,      \* Leipzig:
      << 116, 101, 117, 98, 110, 101, 114 >>,          \* Teubner
      << 99, 108, 97, 114, 101, 110, 100, 111, 110, 32, 112, 114, 101, 115, 115 >> }  \* Clarendon Press

\* the loop over metadata_patterns
is_metadata(line) ==
    \/ SearchHeader(line)
    \/ SearchEra(<< 98, 46, 99, 46, 41 >>, line)     \* B.C.)
    \/ SearchEra(<< 97, 46, 100, 46, 41 >>, line)    \* A.D.)
    \/ \E lit \in metadata_patterns : Search(lit, line)

IsGreek_basic(c) == c \in 880..1023

\* 'Ͱ' <= c <= 'Ͽ' or 'ἀ' <= c <= '῿'
IsGreek(c) == c \in 880..1023 \/ c \in 7936..8191

greek_chars(line) == Cardinality({ i \in 1..Len(line) : IsGreek(line[i]) })

Classify_exclude(meta, g, t) ==
    IF 2 * g > t /\ ~meta /\ t > LongLine THEN "greek" ELSE "metadata"

\* a variant whose first branch does not look at is_metadata
Classify_ratio_first(meta, g, t) ==
    IF 2 * g > t /\ t > LongLine THEN "greek"
    ELSE IF meta \/ 10 * g < t THEN "metadata"
    ELSE "greek"

\* the three branches on greek_ratio, is_metadata and len(line)
Classify(meta, g, t) ==
    IF 2 * g > t /\ ~meta /\ t > LongLine THEN "greek"
    ELSE IF meta \/ 10 * g < t THEN "metadata"
    ELSE "greek"

\* everything a text operation leaves alone in the crawler
crawler_idle == << dl_vars, script, entry, max_retries, index_authors, server_works,
                 author_entries, ai, processed_authors, authors, tlg_id, max_works,
                 work_id, url_idx, work_found, consecutive_misses, works, probes,
                 url, attempt, content, waits, sent, caller, inflight, requested,
                 slept, unslept, issued >>

idle_frame == << crawler_idle, more_vars >>

\* one turn of: for line in lines
FilterLine ==
    /\ script = "filter"
    /\ pc = "filter_loop"
    /\ li < Len(Split(mixed_text))
    /\ LET line == Strip(Split(mixed_text)[li + 1])
           class == Classify(is_metadata(line), greek_chars(line), Len(line))
       IN  IF line = << >>
             THEN UNCHANGED << greek_lines, metadata_lines >>
             ELSE IF class = "greek"
               THEN /\ greek_lines' = Append(greek_lines, line)
                    /\ UNCHANGED metadata_lines
               ELSE /\ metadata_lines' = Append(metadata_lines, line)
                    /\ UNCHANGED greek_lines
    /\ li' = li + 1
    /\ UNCHANGED << idle_frame, tool_vars, preserve_vars, pc, mixed_text, separated >>

\* the return statement
FilterReturn ==
    /\ script = "filter"
    /\ pc = "filter_loop"
    /\ li = Len(Split(mixed_text))
    /\ separated' = [ greek_text |-> Join(greek_lines),
                      metadata |-> Join(metadata_lines),
                      mixed_content |-> mixed_text ]
    /\ pc' = "done"
    /\ UNCHANGED << idle_frame, tool_vars, preserve_vars, mixed_text, li, greek_lines,
                    metadata_lines >>

\* the crawler is not running
InitNoCrawl ==
    /\ InitIdle
    /\ InitMoreIdle
    /\ max_retries = 1
    /\ index_authors = << >>
    /\ server_works = {}
    /\ tlg_id = ""
    /\ max_works = DefaultMaxWorks
    /\ catalog = << >>

\* one call of separate_greek_from_metadata(mixed_text)
InitFilter ==
    /\ InitNoCrawl
    /\ InitPreserveIdle
    /\ InitToolsIdle
    /\ script = "filter"
    /\ entry = "separate_greek_from_metadata"
    /\ pc = "filter_loop"
    /\ mixed_text \in Texts(MaxChunks)
    /\ li = 0
    /\ greek_lines = << >>
    /\ metadata_lines = << >>
    /\ separated = None

NextFilter ==
    \/ FilterLine
    \/ FilterReturn

SpecFilter == InitFilter /\ [][NextFilter]_vars

-----------------------------------------------------------------------------
(* tlg_reference_preservation.py: TLGReferenceParser, TLGValidationSystem    *)
(* and TLGReferencePreserver.preserve_extraction_references.  A ratio is     *)
(* the pair << numerator, denominator >>.                                    *)

MaxTextChunks == 3      \* most pieces of TextLexicon in one clean_text

min_text_length == 50   \* TLGValidationSystem.min_text_length

min_greek_ratio == << 1, 5 >>   \* TLGValidationSystem.min_greek_ratio = 0.2

required_reference_fields ==
    << "author_id", "work_id", "author_name", "work_title",
       "traditional_citation", "url" >>

TLG_ABBREVIATIONS ==
    "0012" :> "Hom." @@ "0059" :> "Pl." @@ "0086" :> "Arist." @@
    "0011" :> "Soph." @@ "0006" :> "Eur." @@ "0007" :> "Aesch." @@
    "0016" :> "Hdt." @@ "0003" :> "Th." @@ "0087" :> "Dem." @@
    "0014" :> "Xen." @@ "0017" :> "Isoc." @@ "0020" :> "Lys." @@
    "0028" :> "Isae." @@ "0030" :> "Lyc." @@ "0031" :> "Hyp." @@
    "0032" :> "Din." @@ "0040" :> "Andr."

WORK_MAPPINGS ==
    "0012" :> ( "001" :> [title |-> "Iliad", abbrev |-> "Il.", genre |-> "Epic Poetry"] @@
                "002" :> [title |-> "Odyssey", abbrev |-> "Od.", genre |-> "Epic Poetry"] ) @@
    "0059" :> ( "030" :> [title |-> "Republic", abbrev |-> "R.", genre |-> "Philosophy"] @@
                "003" :> [title |-> "Phaedo", abbrev |-> "Phd.", genre |-> "Philosophy"] @@
                "004" :> [title |-> "Meno", abbrev |-> "Men.", genre |-> "Philosophy"] @@
                "021" :> [title |-> "Apology", abbrev |-> "Ap.", genre |-> "Philosophy"] ) @@
    "0086" :> ( "035" :> [title |-> "Metaphysics", abbrev |-> "Metaph.", genre |-> "Philosophy"] @@
                "087" :> [title |-> "Nicomachean Ethics", abbrev |-> "EN", genre |-> "Ethics"] @@
                "001" :> [title |-> "Categories", abbrev |-> "Cat.", genre |-> "Logic"] )

\* dict.get(key, default)
DictGet(d, key, default) == IF key \in DOMAIN d THEN d[key] ELSE default

\* str.zfill(4) of a string of at most four characters
zfill4(s) ==
    CASE Len(s) = 0 -> "0000"
      [] Len(s) = 1 -> "000" \o s
      [] Len(s) = 2 -> "00" \o s
      [] Len(s) = 3 -> "0" \o s
      [] OTHER -> s

author_abbrev_padded(author_id) ==
    DictGet(TLG_ABBREVIATIONS, zfill4(author_id), "TLG" \o zfill4(author_id))

\* self.abbreviations.get(author_id, f'TLG{author_id}')
author_abbrev(author_id) == DictGet(TLG_ABBREVIATIONS, author_id, "TLG" \o author_id)

\* a variant that knows no work of any author
HasWorkMapping_never(author_id, wid) == FALSE

\* author_id in self.work_mappings and work_id in self.work_mappings[author_id]
HasWorkMapping(author_id, wid) ==
    /\ author_id \in DOMAIN WORK_MAPPINGS
    /\ wid \in DOMAIN WORK_MAPPINGS[author_id]

build_traditional_citation(author_id, wid) ==
    IF HasWorkMapping(author_id, wid)
      THEN author_abbrev(author_id) \o " " \o WORK_MAPPINGS[author_id][wid].abbrev
      ELSE author_abbrev(author_id) \o " " \o wid

\* the TLGReference (its extraction_date, a clock reading, is left out)
create_reference_from_discovery(ad, wd) ==
    LET author_id == ad.tlg_id
        wid == wd.work_id
        mapped == HasWorkMapping(author_id, wid)
        given_title == DictGet(wd, "title", "Work " \o wid)
    IN  [ author_id |-> author_id,
          author_name |-> ad.name,
          author_description |-> DictGet(ad, "description", ""),
          period |-> DictGet(ad, "period", ""),
          location |-> DictGet(ad, "location", ""),
          work_id |-> wid,
          work_title |-> IF mapped THEN WORK_MAPPINGS[author_id][wid].title
                         ELSE given_title,
          work_genre |-> IF mapped THEN WORK_MAPPINGS[author_id][wid].genre
                         ELSE "Unknown",
          url |-> wd.url,
          traditional_citation |-> build_traditional_citation(author_id, wid),
          traditional_abbreviation |-> author_abbrev(author_id) ]

\* the code points of the two Greek blocks that are no letters
NotALetter(c) ==
    \/ c \in { 885, 894, 903, 907, 909, 930, 1014, 8024, 8026, 8028, 8030, 8117, 8125, 8133, 8181 }
    \/ c \in 888..889
    \/ c \in 896..901
    \/ c \in 7958..7959
    \/ c \in 7966..7967
    \/ c \in 8006..8007
    \/ c \in 8014..8015
    \/ c \in 8062..8063
    \/ c \in 8127..8129
    \/ c \in 8141..8143
    \/ c \in 8148..8149
    \/ c \in 8156..8159
    \/ c \in 8173..8177
    \/ c \in 8189..8191

\* str.isalpha on ASCII and on the two Greek blocks
IsAlpha(c) ==
    \/ c \in 65..90
    \/ c \in 97..122
    \/ /\ IsGreek(c)
       /\ ~NotALetter(c)

\* len(text.split())
word_count(text) ==
    Cardinality({ i \in 1..Len(text) :
                    ~IsSpace(text[i]) /\ (i = 1 \/ IsSpace(text[i - 1])) })

validate_greek_content(text) ==
    LET total_alpha_chars == Cardinality({ i \in 1..Len(text) : IsAlpha(text[i]) })
        greek_alpha == Cardinality({ i \in 1..Len(text) :
                                       IsAlpha(text[i]) /\ IsGreek(text[i]) })
        enough == greek_alpha * min_greek_ratio[2] >= min_greek_ratio[1] * total_alpha_chars
    IN  IF Len(text) < min_text_length
          THEN [ valid |-> FALSE, reason |-> "Text too short",
                 length |-> Len(text), greek_ratio |-> << 0, 1 >> ]
        ELSE IF total_alpha_chars = 0
          THEN [ valid |-> FALSE, reason |-> "No alphabetic characters",
                 length |-> Len(text), greek_ratio |-> << 0, 1 >> ]
        ELSE [ valid |-> enough,
               reason |-> IF enough THEN "Valid Greek text"
                          ELSE "Insufficient Greek content",
               length |-> Len(text),
               word_count |-> word_count(text),
               greek_chars |-> greek_alpha,
               total_alpha_chars |-> total_alpha_chars,
               greek_ratio |-> << greek_alpha, total_alpha_chars >> ]

\* not value or not value.strip(): the values here carry no outer whitespace
Missing(value) == value = ""

validate_reference_completeness(reference) ==
    LET missing_fields == SelectSeq(required_reference_fields,
                                    LAMBDA field : Missing(reference[field]))
    IN  [ valid |-> Len(missing_fields) = 0,
          missing_fields |-> missing_fields,
          completeness_score |->
              << Len(required_reference_fields) - Len(missing_fields),
                 Len(required_reference_fields) >> ]

overall_valid_text_only(text_valid, reference_valid) == text_valid

\* text_validation['valid'] and reference_validation['valid']
overall_valid(text_valid, reference_valid) == text_valid /\ reference_valid

\* the result dict (its validation_timestamp, a clock reading, is left out)
validate_extraction(raw_text, reference) ==
    LET text_validation == validate_greek_content(raw_text)
        reference_validation == validate_reference_completeness(reference)
    IN  [ overall_valid |-> overall_valid(text_validation.valid,
                                          reference_validation.valid),
          text_validation |-> text_validation,
          reference_validation |-> reference_validation ]

\* preserve_extraction_references: tlg_reference = create_reference_from_discovery(...)
CreateReference ==
    /\ script = "preserve"
    /\ pc = "create_reference"
    /\ tlg_reference' = create_reference_from_discovery(author_data, work_data)
    /\ pc' = "validate"
    /\ UNCHANGED << idle_frame, tool_vars, filter_vars, author_data, work_data, clean_text,
                    validation_metrics >>

\* preserve_extraction_references: the text structure keeps clean_text as
\* raw_text, and the validator's result becomes validation_metrics
ValidateExtraction ==
    /\ script = "preserve"
    /\ pc = "validate"
    /\ validation_metrics' = validate_extraction(clean_text, tlg_reference)
    /\ pc' = "done"
    /\ UNCHANGED << idle_frame, tool_vars, filter_vars, author_data, work_data, clean_text,
                    tlg_reference >>

\* the pieces the extracted texts are made of
GreekVerse == << 956, 8134, 957, 953, 957, 7940, 949, 953, 948, 949, 952, 949, 8048, 928, 951, 955, 951, 970, 940, 948, 949, 969, 7944, 967, 953 >>
MostlyLatin == << 956, 8134, 957, 953, 957, 72, 111, 109, 101, 114, 105, 73, 108, 105, 97, 115, 101, 100, 105, 100, 65, 108, 108, 101, 110 >>
Numerals == << 49, 50, 32, 51, 52, 32, 53, 54, 32, 55, 56, 32, 57, 48, 32, 49, 50, 32, 51, 52, 32, 53, 54, 32 >>
TextLexicon ==
    { GreekVerse,    \* 25 Greek letters
      MostlyLatin,   \* 5 Greek letters and 20 Latin ones
      Numerals,      \* 24 digits and spaces
      << 120 >>,     \* "x"
      << 894 >> }    \* U+037E, the Greek question mark

RECURSIVE CleanTexts(_)
CleanTexts(n) ==
    IF n = 0 THEN { << >> }
    ELSE LET shorter == CleanTexts(n - 1)
         IN  shorter \cup { t \o c : t \in shorter, c \in TextLexicon }

\* index entries: the tlg_id as the page prints it, the name possibly empty
AuthorData == [ tlg_id : { "0012", "12", "0086", "9999" }, name : { "", "Homerus" } ]

\* a discovered work, with the title the visual discoverer adds or without
WorkData(author_id) ==
    LET found == { [ work_id |-> w, url |-> DownloadUrl(author_id, w) ] :
                     w \in { "001", "087", "999" } }
    IN  found \cup { [ work_id |-> wd.work_id, url |-> wd.url, title |-> "Ilias" ] :
                       wd \in found }

\* one call of preserve_extraction_references(author_data, work_data, html, clean_text)
InitPreserve ==
    /\ InitNoCrawl
    /\ InitFilterIdle
    /\ InitToolsIdle
    /\ script = "preserve"
    /\ entry = "preserve_extraction_references"
    /\ pc = "create_reference"
    /\ author_data \in AuthorData
    /\ work_data \in WorkData(author_data.tlg_id)
    /\ clean_text \in CleanTexts(MaxTextChunks)
    /\ tlg_reference = None
    /\ validation_metrics = None

NextPreserve ==
    \/ CreateReference
    \/ ValidateExtraction

SpecPreserve == InitPreserve /\ [][NextPreserve]_vars

-----------------------------------------------------------------------------
(* author_catalog_tools.py: the normalise and coverage commands.  A file is  *)
(* a record that tells its kind and carries the parsed JSON value or the     *)
(* CSV rows; an author name of the index is the sequence of its code points. *)

\* the paths a command line may name
LEGACY_PATH == "legacy_catalog.json"
TLG_PATH == "tlg_integrated_catalog.json"
INDEX_PATH == "tlg_author_index.json"
NEW_PATH == "out"

Json(d) == [kind |-> "json", data |-> d]
Csv(r) == [kind |-> "csv", rows |-> r]

\* path.write_text(...) / path.open("w"): the file is created or replaced
WriteFile(d, path, c) ==
    [p \in DOMAIN d \cup {path} |-> IF p = path THEN c ELSE d[p]]

\* str.isupper() or str.islower(), str.upper(), str.lower() on ASCII
IsCased(c) == c \in 65..90 \/ c \in 97..122
ToUpper(c) == IF c \in 97..122 THEN c - 32 ELSE c
ToLower(c) == IF c \in 65..90 THEN c + 32 ELSE c

title_case_respaced(name) ==
    [i \in 1..Len(name) |->
        IF ~IsCased(name[i]) THEN 32
        ELSE IF i > 1 /\ IsCased(name[i - 1]) THEN ToLower(name[i])
        ELSE ToUpper(name[i])]

\* _title_case: name.title()
title_case(name) ==
    [i \in 1..Len(name) |->
        IF i > 1 /\ IsCased(name[i - 1]) THEN ToLower(name[i])
        ELSE ToUpper(name[i])]

\* the loop of normalise_author_index over data.values()
normalised(data) ==
    [k \in DOMAIN data |->
        IF "name" \in DOMAIN data[k]
          THEN [data[k] EXCEPT !.name = title_case(@)]
          ELSE data[k]]

\* normalise_author_index(input_path, output_path)
NormaliseAuthorIndex ==
    /\ script = "author_catalog_tools"
    /\ pc = "command"
    /\ argv.command = "normalise"
    /\ disk' = WriteFile(disk, argv.output, Json(normalised(disk[argv.input].data)))
    /\ pc' = "done"
    /\ UNCHANGED << idle_frame, filter_vars, preserve_vars, argv, disk_before >>

\* lang.lower() on the language codes of the catalogues
lang_lower(lang) ==
    CASE lang = "GRC" -> "grc"
      [] lang = "LAT" -> "lat"
      [] OTHER -> lang

\* _collect_works(catalogue, languages=...): (author_id, work_id) -> metadata;
\* an empty selection stands for None as well, the code treats them alike
collect_works(catalogue, languages) ==
    LET norm_langs == { lang_lower(languages[i]) : i \in 1..Len(languages) }
        selected(work_meta) ==
            \/ languages = << >>
            \/ lang_lower(DictGet(work_meta, "language", "")) \in norm_langs
        works_of(a) == DictGet(catalogue[a], "works", << >>)
        keys == UNION { { << a, w >> : w \in { x \in DOMAIN works_of(a) :
                                                 selected(works_of(a)[x]) } } :
                        a \in DOMAIN catalogue }
    IN  [ key \in keys |->
            [ author_id |-> key[1],
              work_id |-> key[2],
              author_name |-> DictGet(catalogue[key[1]], "name", ""),
              work_title |-> DictGet(works_of(key[1])[key[2]], "title", "") ] ]

\* the (author_id, work_id) pairs of the catalogues, in sorted order
KeyOrder == << << "0012", "001" >>, << "0012", "002" >>, << "0059", "001" >> >>

\* sorted(keys)
sorted_keys(keys) == SelectSeq(KeyOrder, LAMBDA k : k \in keys)

all_keys_legacy_only(legacy_works, tlg_works) == DOMAIN legacy_works

\* set(legacy_works) | set(tlg_works)
all_keys(legacy_works, tlg_works) == DOMAIN legacy_works \cup DOMAIN tlg_works

\* {**a, **b}
DictMerge(a, b) ==
    [k \in DOMAIN a \cup DOMAIN b |-> IF k \in DOMAIN b THEN b[k] ELSE a[k]]

\* the body of the loop over sorted(all_keys): one row
coverage_row(key, legacy_works, tlg_works) ==
    LET in_legacy == key \in DOMAIN legacy_works
        in_tlg == key \in DOMAIN tlg_works
        label == IF in_legacy /\ in_tlg THEN "bot"
                 ELSE IF in_tlg THEN "tlg"
                 ELSE "leg"
        row_meta == IF in_legacy /\ in_tlg
                      THEN DictMerge(legacy_works[key], tlg_works[key])
                    ELSE IF in_tlg THEN tlg_works[key]
                    ELSE legacy_works[key]
    IN  << row_meta.author_id, row_meta.work_id, row_meta.author_name,
           row_meta.work_title, label >>

CSV_HEADER == << "author_id", "work_id", "author_name", "work_title", "coverage" >>

\* the rows generate_coverage_csv writes
coverage_rows(legacy_catalog, tlg_catalog, languages) ==
    LET legacy_works == collect_works(legacy_catalog, languages)
        tlg_works == collect_works(tlg_catalog, languages)
        keys == sorted_keys(all_keys(legacy_works, tlg_works))
    IN  << CSV_HEADER >> \o
        [ i \in 1..Len(keys) |-> coverage_row(keys[i], legacy_works, tlg_works) ]

\* generate_coverage_csv(legacy_catalog_path, tlg_catalog_path, output_csv_path, languages)
GenerateCoverageCsv ==
    /\ script = "author_catalog_tools"
    /\ pc = "command"
    /\ argv.command = "coverage"
    /\ disk' = WriteFile(disk, argv.output,
                         Csv(coverage_rows(disk[argv.legacy].data, disk[argv.tlg].data,
                                           argv.languages)))
    /\ pc' = "done"
    /\ UNCHANGED << idle_frame, filter_vars, preserve_vars, argv, disk_before >>

\* the names an author index may carry
Names ==
    { << 72, 79, 77, 69, 82, 85, 83 >>,     \* "HOMERUS"
      << 72, 111, 109, 101, 114, 117, 115 >>,    \* "Homerus"
      << 100, 101, 32, 76, 65, 32, 111, 39, 98, 50, 99 >> }  \* "de LA o'b2c"

\* the entries of an author index, with the name or without
IndexEntries ==
    { [description |-> "Epic."] } \cup
    { [description |-> "Epic.", name |-> n] : n \in Names }

AuthorIndexes ==
    UNION { [K -> IndexEntries] : K \in SUBSET { "tlg0012", "tlg0059" } }

\* the metadata a catalogue may hold for a work
WorkMetas(title) ==
    { [title |-> title],
      [title |-> title, language |-> "grc"],
      [title |-> title, language |-> "LAT"] }

\* the works a catalogue may hold for an author
WorkMaps(ids, title) ==
    UNION { [W -> WorkMetas(title)] : W \in (SUBSET ids) \ { {} } }

\* the entries of an author: without a "works" field, or with works
AuthorMetas(ids, name, title) ==
    { [name |-> name] } \cup
    { [name |-> name, works |-> ws] : ws \in WorkMaps(ids, title) }

\* the catalogues: Homer with up to two works, Plato with up to one
Catalogues(name, title) ==
    LET homer == AuthorMetas({ "001", "002" }, name, title)
        plato == AuthorMetas({ "001" }, name, title)
    IN  { << >> }
        \cup { "0012" :> h : h \in homer }
        \cup { "0059" :> p : p \in plato }
        \cup { "0012" :> h @@ "0059" :> p : h \in homer, p \in plato }

\* --language values; the empty one stands for a call without languages
LanguageSelections == { << >>, << "grc" >>, << "GRC", "lat" >> }

\* one run of the normalise or of the coverage command
InitTools ==
    /\ InitNoCrawl
    /\ InitFilterIdle
    /\ InitPreserveIdle
    /\ script = "author_catalog_tools"
    /\ entry = "main"
    /\ pc = "command"
    /\ \/ /\ argv \in [ command : { "normalise" }, input : { INDEX_PATH },
                        output : { INDEX_PATH, NEW_PATH } ]
          /\ \E index \in AuthorIndexes : disk = INDEX_PATH :> Json(index)
       \/ /\ argv \in [ command : { "coverage" }, legacy : { LEGACY_PATH },
                        tlg : { TLG_PATH },
                        output : { LEGACY_PATH, TLG_PATH, NEW_PATH },
                        languages : LanguageSelections ]
          /\ \E legacy \in Catalogues("HOMERUS", "ILIAS"),
                tlg \in Catalogues("Homerus", "Iliad") :
                disk = LEGACY_PATH :> Json(legacy) @@ TLG_PATH :> Json(tlg)
    /\ disk_before = disk

NextTools ==
    \/ NormaliseAuthorIndex
    \/ GenerateCoverageCsv

SpecTools == InitTools /\ [][NextTools]_vars

-----------------------------------------------------------------------------
(* parse_index_page (discover_tlg.py) *)

MaxRows == 2

\* the literal 'TLG'
TLG == << 84, 76, 71 >>

\* lit occurs in s at position i, letter case included
HasExactAt(s, i, lit) ==
    /\ i >= 1
    /\ i + Len(lit) - 1 <= Len(s)
    /\ \A k \in 1..Len(lit) : s[i + k - 1] = lit[k]

\* 'TLG' in tlg_link.get_text()
ContainsTLG(text) == \E i \in 1..Len(text) : HasExactAt(text, i, TLG)

\* the position after s[i..] has matched \s* : the first non-space from i on
SkipSpaces(s, i) ==
    IF \E j \in i..Len(s) : ~IsSpace(s[j])
      THEN CHOOSE j \in i..Len(s) : ~IsSpace(s[j]) /\ \A k \in i..(j - 1) : IsSpace(s[k])
      ELSE Len(s) + 1

\* the end of the digits that \d+ takes from position j on
LastDigit(s, j) ==
    CHOOSE k \in j..Len(s) :
        /\ \A d \in j..k : IsDigit(s[d])
        /\ (k = Len(s) \/ ~IsDigit(s[k + 1]))

\* the pattern matches at i with at least min_spaces characters for \s
MatchesAt(s, i, min_spaces) ==
    /\ HasExactAt(s, i, TLG)
    /\ SkipSpaces(s, i + 3) >= i + 3 + min_spaces
    /\ SkipSpaces(s, i + 3) <= Len(s)
    /\ IsDigit(s[SkipSpaces(s, i + 3)])

\* re.search of TLG, min_spaces or more \s, (\d+): whether it matched, and group(1)
search_tlg(s, min_spaces) ==
    IF \E i \in 1..Len(s) : MatchesAt(s, i, min_spaces)
      THEN LET i == CHOOSE i \in 1..Len(s) :
                        /\ MatchesAt(s, i, min_spaces)
                        /\ \A h \in 1..(i - 1) : ~MatchesAt(s, h, min_spaces)
               j == SkipSpaces(s, i + 3)
           IN  [matched |-> TRUE, group1 |-> SubSeq(s, j, LastDigit(s, j))]
      ELSE [matched |-> FALSE, group1 |-> << >>]

tlg_match_nospace(tlg_text) == search_tlg(tlg_text, 0)

\* re.search(r'TLG\s+(\d+)', tlg_text)
tlg_match(tlg_text) == search_tlg(tlg_text, 1)

\* everything the parser leaves alone outside its own variables and pc
parse_frame == << crawler_idle, filter_vars, preserve_vars, tool_vars, main_vars,
                 run_vars, restarts, late_vars >>

\* whether the row yields a record: the conditions around authors.append
row_parsed(row) ==
    /\ row.cells >= 4
    /\ row.has_link
    /\ ContainsTLG(row.link_text)
    /\ tlg_match(Strip(row.link_text)).matched
    /\ ~row.raises

\* the appended record (of its fields, tlg_id)
author_record(row) == [tlg_id |-> tlg_match(Strip(row.link_text)).group1]

\* one turn of: for row in soup.find_all('tr')
ParseRow ==
    /\ script = "discover"
    /\ pc = "parse_loop"
    /\ row_i < Len(soup)
    /\ row_i' = row_i + 1
    /\ parsed' = IF row_parsed(soup[row_i + 1])
                   THEN Append(parsed, author_record(soup[row_i + 1]))
                   ELSE parsed
    /\ UNCHANGED << parse_frame, pc, soup >>

\* return authors
ParseReturn ==
    /\ script = "discover"
    /\ pc = "parse_loop"
    /\ row_i = Len(soup)
    /\ pc' = "done"
    /\ UNCHANGED << parse_frame, parse_vars >>

\* the texts of the first cell's link
LinkTexts == { << 84, 76, 71, 32, 48, 48, 49, 50 >>, << 84, 76, 71, 48, 48, 49, 50 >>, << 72, 111, 109, 101, 114 >>, << 32, 84, 76, 71, 32, 32, 53, 57, 32 >> }

\* table rows: the number of td cells, the first link of the first cell, and
\* whether reading the cells inside the try block raises
Rows ==
    [cells : { 3, 4, 6 }, has_link : { TRUE }, link_text : LinkTexts, raises : BOOLEAN]
    \cup [cells : { 3, 4, 6 }, has_link : { FALSE }, link_text : { << >> },
          raises : BOOLEAN]

RowSeqs == UNION { [1..n -> Rows] : n \in 0..MaxRows }

\* one call of parse_index_page(html_content)
InitParse ==
    /\ InitIdle
    /\ InitMoreIdleExcept("parse")
    /\ InitFilterIdle
    /\ InitPreserveIdle
    /\ InitToolsIdle
    /\ max_retries = 1
    /\ index_authors = << >>
    /\ server_works = {}
    /\ tlg_id = ""
    /\ max_works = DefaultMaxWorks
    /\ catalog = << >>
    /\ script = "discover"
    /\ entry = "parse"
    /\ pc = "parse_loop"
    /\ soup \in RowSeqs
    /\ row_i = 0
    /\ parsed = << >>

NextParse ==
    \/ ParseRow
    \/ ParseReturn

SpecParse == InitParse /\ [][NextParse]_vars

-----------------------------------------------------------------------------
(* The top level of the scripts: main() and the interpreter around it *)

MaxItems == 4

\* what main() does with an exception that leaves its body:
\*   "print": an except clause prints a message and main goes on to return
\*   "exit":  an except clause prints or logs a message and calls sys.exit(1)
\*   "none":  no except clause, the exception leaves main
Programs ==
    { "full_html_downloader", "tlg_visual_extractor", "cleanup_mac_duplicates",
      "quick_test", "discover_tlg", "tlg_integrated_extractor" }

except_clause(prog) ==
    IF prog \in { "full_html_downloader", "tlg_visual_extractor" } THEN "print"
    ELSE IF prog \in { "cleanup_mac_duplicates", "quick_test" } THEN "exit"
    ELSE "none"

\* whether main's finally clause prints after the cleanup
prints_cleanup(prog) == prog \in { "full_html_downloader", "tlg_visual_extractor" }

\* the interpreter's exit status for an exception that left main
UncaughtStatus(exc) == IF exc = "KeyboardInterrupt" THEN 130 ELSE 1

main_frame == << crawler_idle, filter_vars, preserve_vars, tool_vars, parse_vars,
                run_vars, restarts, late_vars >>

\* one turn of the outermost loop completes
MainItem ==
    /\ script = "main"
    /\ pc = "main_try"
    /\ items_done < MaxItems
    /\ items_done' = items_done + 1
    /\ UNCHANGED << main_frame, pc, program, raised, stdout, exit_status >>

\* an exception leaves the body of main's try
MainRaise ==
    /\ script = "main"
    /\ pc = "main_try"
    /\ \E exc \in { "Exception", "KeyboardInterrupt" } : raised' = exc
    /\ pc' = "main_except"
    /\ UNCHANGED << main_frame, program, items_done, stdout, exit_status >>

\* the body of main's try ends
MainBodyEnds ==
    /\ script = "main"
    /\ pc = "main_try"
    /\ items_done = MaxItems
    /\ pc' = "main_finally"
    /\ UNCHANGED << main_frame, main_vars >>

\* except ...: print(...), and main goes on
MainExceptPrint ==
    /\ script = "main"
    /\ pc = "main_except"
    /\ except_clause(program) = "print"
    /\ stdout' = Append(stdout, IF raised = "KeyboardInterrupt"
                                  THEN "interrupted by user"
                                  ELSE "Unexpected error")
    /\ pc' = "main_finally"
    /\ UNCHANGED << main_frame, program, items_done, raised, exit_status >>

\* except ...: print or log, sys.exit(1)
MainExceptExit ==
    /\ script = "main"
    /\ pc = "main_except"
    /\ except_clause(program) = "exit"
    /\ stdout' = Append(stdout, IF raised = "KeyboardInterrupt"
                                  THEN "cancelled by user"
                                  ELSE "Unexpected error")
    /\ exit_status' = 1
    /\ pc' = "exited"
    /\ UNCHANGED << main_frame, program, items_done, raised >>

\* no except clause: the interpreter prints the traceback and ends the process
MainUncaught ==
    /\ script = "main"
    /\ pc = "main_except"
    /\ except_clause(program) = "none"
    /\ stdout' = Append(stdout, "Traceback")
    /\ exit_status' = UncaughtStatus(raised)
    /\ pc' = "exited"
    /\ UNCHANGED << main_frame, program, items_done, raised >>

\* main returns (after the finally clause, if any) and the process ends
MainReturns ==
    /\ script = "main"
    /\ pc = "main_finally"
    /\ stdout' = IF prints_cleanup(program)
                   THEN Append(stdout, "Cleanup complete")
                   ELSE stdout
    /\ exit_status' = 0
    /\ pc' = "exited"
    /\ UNCHANGED << main_frame, program, items_done, raised >>

\* one run of one of the scripts
InitMain ==
    /\ InitIdle
    /\ InitMoreIdleExcept("main")
    /\ InitFilterIdle
    /\ InitPreserveIdle
    /\ InitToolsIdle
    /\ max_retries = 1
    /\ index_authors = << >>
    /\ server_works = {}
    /\ tlg_id = ""
    /\ max_works = DefaultMaxWorks
    /\ catalog = << >>
    /\ script = "main"
    /\ entry = "main"
    /\ pc = "main_try"
    /\ program \in Programs
    /\ items_done = 0
    /\ raised = "none"
    /\ stdout = << >>
    /\ exit_status = None

NextMain ==
    \/ MainItem
    \/ MainRaise
    \/ MainBodyEnds
    \/ MainExceptPrint
    \/ MainExceptExit
    \/ MainUncaught
    \/ MainReturns

SpecMain == InitMain /\ [][NextMain]_vars

-----------------------------------------------------------------------------
(* TLGIntegratedExtractor.run_extraction: index, priority authors, works,   *)
(* extraction of each work, save_results                                     *)

checkpoint_every == 50
index_max_retries == 3
probe_max_retries == 2

\* the default of extract_priority_authors
priority_authors == << "0012", "0059", "0086", "0011", "0006", "0007" >>

\* the name cell of an author's row on the index page
IndexName(id) == IF id = "0012" THEN "Homerus" ELSE ""

\* a variant that keeps the ID as the page prints it
IndexAuthor_unfilled(id) ==
    [tlg_id |-> id, name |-> IndexName(id), description |-> "",
     location |-> "", period |-> ""]

\* discover_tlg_index: one dict per row, tlg_id zero-filled to four digits
IndexAuthor(id) ==
    [tlg_id |-> zfill4(id), name |-> IndexName(id), description |-> "",
     location |-> "", period |-> ""]

\* {author['tlg_id']: author for author in authors}: a later row wins
AuthorsById(ids) ==
    [a \in { zfill4(ids[i]) : i \in 1..Len(ids) } |->
        LET last == CHOOSE i \in 1..Len(ids) :
                        /\ zfill4(ids[i]) = a
                        /\ \A j \in (i + 1)..Len(ids) : zfill4(ids[j]) # a
        IN  IndexAuthor(ids[last])]

\* f"{author_data['tlg_id']}_{work_data['work_id']}"
WorkKey(a, w) == a \o "_" \o w

\* the text extract_greek_from_html returns for a page with Greek text
ExtractedText == GreekVerse \o GreekVerse

\* ValidatedExtraction.to_dict()
to_dict(extraction) ==
    [tlg_reference |-> extraction.tlg_reference,
     text_structure |-> extraction.text_structure,
     validation_metrics |-> extraction.validation_metrics]

\* save_checkpoint of the extractor
ExtractionCheckpoint(pw, count) ==
    [script |-> "integrated", processed_works |-> pw, extracted_count |-> count]

run_frame == << dl_vars, filter_vars, preserve_vars, tool_vars, parse_vars, main_vars,
                restarts, late_vars,
                script, entry, index_authors, server_works, author_entries, ai,
                processed_authors, authors, max_works >>

\* content = await self.fetch_page(index_url)
RunExtraction ==
    /\ pc = "start"
    /\ entry = "extract"
    /\ max_retries' = index_max_retries
    /\ CallFetch(INDEX_URL, "index")
    /\ SleepOnly(FALSE)
    /\ UNCHANGED << run_frame, run_vars, tlg_id, work_id, url_idx, work_found,
                    consecutive_misses, works, probes >>

\* if not content: return [] -- else the rows; then discovered_authors = {...}
ExtractIndexFetched ==
    /\ pc = "ret"
    /\ caller = "index"
    /\ entry = "extract"
    /\ discovered_authors' = IF Truthy(content) THEN AuthorsById(index_authors)
                             ELSE << >>
    /\ priority_i' = 1
    /\ pc' = "priority_loop"
    /\ DropFetchFrame
    /\ SleepOnly(FALSE)
    /\ UNCHANGED << run_frame, max_retries, tlg_id, work_id, url_idx, work_found,
                    consecutive_misses, works, probes, caller, wi, extracted_works,
                    processed_works, total_extracted, corpus, checkpoints, attempted >>

\* for author_id in priority_authors: if author_id in self.discovered_authors
PriorityLoop ==
    /\ pc = "priority_loop"
    /\ IF priority_i > Len(priority_authors)
         THEN /\ pc' = "save_results"
              /\ UNCHANGED << priority_i, tlg_id, work_id, consecutive_misses, works,
                              max_retries >>
         ELSE IF priority_authors[priority_i] \notin DOMAIN discovered_authors
           THEN /\ priority_i' = priority_i + 1
                /\ UNCHANGED << pc, tlg_id, work_id, consecutive_misses, works,
                                max_retries >>
           ELSE /\ tlg_id' = discovered_authors[priority_authors[priority_i]].tlg_id
                /\ work_id' = 1
                /\ consecutive_misses' = 0
                /\ works' = << >>
                /\ max_retries' = probe_max_retries
                /\ pc' = "works_loop"
                /\ UNCHANGED priority_i
    /\ SleepOnly(FALSE)
    /\ UNCHANGED << run_frame, url_idx, work_found, probes, url, attempt, content, waits,
                    sent, caller, discovered_authors, wi, extracted_works,
                    processed_works, total_extracted, corpus, checkpoints, attempted >>

\* works = await self.discover_author_works(author_data)
ExtractWorksReturn ==
    /\ pc = "works_return"
    /\ entry = "extract"
    /\ wi' = 1
    /\ probes' = << >>
    /\ pc' = "extract_loop"
    /\ SleepOnly(FALSE)
    /\ UNCHANGED << run_frame, max_retries, tlg_id, work_id, url_idx, work_found,
                    consecutive_misses, works, url, attempt, content, waits, sent, caller,
                    discovered_authors, priority_i, extracted_works, processed_works,
                    total_extracted, corpus, checkpoints, attempted >>

\* back in extract_priority_authors after extract_work_with_references returned:
\* append, count, checkpoint every 50, sleep, next work
WorkDone(extraction, pw) ==
    LET ew == IF extraction = << >> THEN extracted_works
              ELSE Append(extracted_works, extraction[1])
    IN  /\ extracted_works' = ew
        /\ processed_works' = pw
        /\ total_extracted' = total_extracted + 1
        /\ checkpoints' = IF (total_extracted + 1) % checkpoint_every = 0
                            THEN Append(checkpoints, ExtractionCheckpoint(pw, Len(ew)))
                            ELSE checkpoints
        /\ wi' = wi + 1
        /\ pc' = "extract_loop"

\* for work in works: extraction = await self.extract_work_with_references(...)
ExtractWork ==
    /\ pc = "extract_loop"
    /\ IF wi > Len(works)
         THEN /\ priority_i' = priority_i + 1
              /\ works' = << >>
              /\ pc' = "priority_loop"
              /\ SleepOnly(FALSE)
              /\ UNCHANGED << wi, extracted_works, processed_works, total_extracted,
                              checkpoints, attempted, max_retries, url, attempt, content,
                              waits, sent, caller >>
         ELSE IF WorkKey(tlg_id, works[wi].work_id) \in processed_works
           THEN /\ WorkDone(<< >>, processed_works)
                /\ attempted' = attempted \cup { WorkKey(tlg_id, works[wi].work_id) }
                /\ SleepOnly(TRUE)
                /\ UNCHANGED << priority_i, works, max_retries, url, attempt, content,
                                waits, sent, caller >>
           ELSE /\ attempted' = attempted \cup { WorkKey(tlg_id, works[wi].work_id) }
                /\ max_retries' = index_max_retries
                /\ CallFetch(works[wi].url, "extract")
                /\ SleepOnly(FALSE)
                /\ UNCHANGED << priority_i, works, wi, extracted_works, processed_works,
                                total_extracted, checkpoints >>
    /\ UNCHANGED << run_frame, tlg_id, work_id, url_idx, work_found, consecutive_misses,
                    probes, discovered_authors, corpus >>

extract_frame == << run_frame, max_retries, tlg_id, work_id, url_idx, work_found,
                    consecutive_misses, works, probes, caller, discovered_authors,
                    priority_i, corpus, attempted >>

\* if not html_content: return None
ExtractFetchFailed ==
    /\ pc = "ret"
    /\ caller = "extract"
    /\ ~Truthy(content)
    /\ WorkDone(<< >>, processed_works)
    /\ DropFetchFrame
    /\ SleepOnly(TRUE)
    /\ UNCHANGED extract_frame

\* extract_greek_from_html raises (the parser rejects the page's markup): no
\* except clause is around the call, the exception leaves the loops and
\* run_extraction
ExtractGreekRaises ==
    /\ pc = "ret"
    /\ caller = "extract"
    /\ Truthy(content)
    /\ pc' = "crashed"
    /\ DropFetchFrame
    /\ SleepOnly(FALSE)
    /\ UNCHANGED << extract_frame, wi, extracted_works, processed_works, total_extracted,
                    checkpoints >>

\* if not clean_text: return None
ExtractNoGreek ==
    /\ pc = "ret"
    /\ caller = "extract"
    /\ Truthy(content)
    /\ WorkDone(<< >>, processed_works)
    /\ DropFetchFrame
    /\ SleepOnly(TRUE)
    /\ UNCHANGED extract_frame

\* preserve_extraction_references raises: except Exception: return None
ExtractPreserveRaises ==
    /\ pc = "ret"
    /\ caller = "extract"
    /\ Truthy(content)
    /\ WorkDone(<< >>, processed_works)
    /\ DropFetchFrame
    /\ SleepOnly(TRUE)
    /\ UNCHANGED extract_frame

\* the extraction is built, validated and returned
ExtractPreserved ==
    /\ pc = "ret"
    /\ caller = "extract"
    /\ Truthy(content)
    /\ LET author_data_ == discovered_authors[priority_authors[priority_i]]
           reference == create_reference_from_discovery(author_data_, works[wi])
           extraction == [tlg_reference |-> reference,
                          text_structure |-> [raw_text |-> ExtractedText],
                          validation_metrics |->
                              validate_extraction(ExtractedText, reference)]
       IN  WorkDone(<< extraction >>,
                    processed_works \cup { WorkKey(tlg_id, works[wi].work_id) })
    /\ DropFetchFrame
    /\ SleepOnly(TRUE)
    /\ UNCHANGED extract_frame

\* self.save_results(); self.save_checkpoint()
SaveResults ==
    /\ pc = "save_results"
    /\ corpus' = [total_works |-> Len(extracted_works),
                  works |-> [i \in 1..Len(extracted_works) |-> to_dict(extracted_works[i])]]
    /\ checkpoints' = Append(checkpoints,
                             ExtractionCheckpoint(processed_works, Len(extracted_works)))
    /\ pc' = "done"
    /\ SleepOnly(FALSE)
    /\ UNCHANGED << run_frame, max_retries, tlg_id, work_id, url_idx, work_found,
                    consecutive_misses, works, probes, url, attempt, content, waits, sent,
                    caller, discovered_authors, priority_i, wi, extracted_works,
                    processed_works, total_extracted, attempted >>

\* one run of run_extraction(priority_only=True)
InitExtract ==
    /\ InitIdle
    /\ InitMoreIdleExcept("run")
    /\ InitFilterIdle
    /\ InitPreserveIdle
    /\ InitToolsIdle
    /\ InitRunIdle
    /\ script = "integrated"
    /\ entry = "extract"
    /\ pc = "start"
    /\ max_retries = index_max_retries
    /\ index_authors \in { SubSeq(l, 1, n) : l \in IndexListings, n \in 0..MaxAuthors }
    /\ server_works = {1}
    /\ tlg_id = ""
    /\ max_works = DefaultMaxWorks
    /\ catalog = << >>

NextExtract ==
    \/ NextFetch
    \/ WorksLoop
    \/ WorkFetched
    \/ RunExtraction
    \/ ExtractIndexFetched
    \/ PriorityLoop
    \/ ExtractWorksReturn
    \/ ExtractWork
    \/ ExtractFetchFailed
    \/ ExtractGreekRaises
    \/ ExtractNoGreek
    \/ ExtractPreserveRaises
    \/ ExtractPreserved
    \/ SaveResults

SpecExtract == InitExtract /\ [][NextExtract]_vars

\* a run of any of the crawls: discovery, download or extraction
InitRuns == InitCrawl \/ InitExtract

NextRuns == NextCrawl \/ NextExtract

SpecRuns == InitRuns /\ [][NextRuns]_vars

-----------------------------------------------------------------------------
(* Interrupt and restart of the downloader: Ctrl+C ends the process, the     *)
(* files and the checkpoints stay on disk, and the script is started again   *)

MaxRestarts == 1
MaxResumeCatalog == 1001

\* a catalogue of n works of one author
LongCatalog(n) == [i \in 1..n |-> [author_id |-> "0012", work_id |-> Pad3(i)]]

resume_frame == << filter_vars, preserve_vars, tool_vars, parse_vars, main_vars, run_vars,
                   late_vars,
                   script, entry, max_retries, index_authors, server_works,
                   author_entries, ai, processed_authors, authors, tlg_id, max_works,
                   work_id, url_idx, work_found, consecutive_misses, works, probes,
                   attempt, content, waits, sent, caller, catalog, files >>

\* except KeyboardInterrupt in main, after a checkpoint was written: the
\* message is printed, cleanup closes the session, the process ends
Interrupt ==
    /\ script = "download"
    /\ pc \in { "dl_loop", "dl_get", "dl_await" }
    /\ Len(checkpoints) >= 1
    /\ restarts < MaxRestarts
    /\ inflight' = 0
    /\ pc' = "interrupted"
    /\ UNCHANGED << resume_frame, restarts, url, requested, slept, unslept, issued,
                    works_processed, downloaded, failed >>

\* the script is started again: FullHTMLDownloader(), download_all_works()
Restart ==
    /\ script = "download"
    /\ pc = "interrupted"
    /\ restarts' = restarts + 1
    /\ downloaded' = 0
    /\ failed' = 0
    /\ works_processed' = 0
    /\ url' = ""
    /\ requested' = FALSE
    /\ slept' = FALSE
    /\ unslept' = FALSE
    /\ pc' = "dl_loop"
    /\ UNCHANGED << resume_frame, inflight, issued >>

\* one run of the downloader over a long catalogue, with a server that answers
\* every request with the page
InitResume ==
    /\ InitIdle
    /\ InitTextIdle
    /\ tlg_id = ""
    /\ max_works = DefaultMaxWorks
    /\ script = "download"
    /\ entry = "download"
    /\ pc = "dl_loop"
    /\ max_retries = 1
    /\ index_authors = << >>
    /\ server_works = {}
    /\ catalog \in { LongCatalog(n) : n \in { 1, MaxResumeCatalog } }

NextResume ==
    \/ DownloadLoop
    \/ DownloadGet
    \/ DownloadOk
    \/ Interrupt
    \/ Restart

SpecResume == InitResume /\ [][NextResume]_vars

-----------------------------------------------------------------------------
(* TLGIntegratedExtractor.extract_work_with_references, called any number of *)
(* times on one extractor, for works in any order and more than once         *)

MaxCalls == 3

call_frame == << dl_vars, filter_vars, preserve_vars, tool_vars, parse_vars, main_vars,
                 restarts, trip_vars, cleanup_vars, progress_vars, script, entry, max_retries, index_authors,
                 server_works, author_entries, ai, processed_authors, authors,
                 tlg_id, max_works, work_id, url_idx, work_found, consecutive_misses,
                 works, probes, discovered_authors, priority_i, wi, extracted_works,
                 total_extracted, corpus, checkpoints, attempted >>

\* work_key = f"{author_data['tlg_id']}_{work_data['work_id']}"
work_key == WorkKey(call_args.author_data.tlg_id, call_args.work_data.work_id)

\* self.stats[counter] += 1
Counted(counter) == [stats EXCEPT ![counter] = @ + 1]

\* a variant that remembers every work it was called for
Processed_any(pw, key, extraction) == pw \cup { key }

\* self.processed_works.add(work_key), reached only with an extraction
Processed(pw, key, extraction) == IF extraction = << >> THEN pw ELSE pw \cup { key }

\* the call ends: with None (value << >>), with an extraction, or with the
\* exception that leaves it
CallEnds(outcome, value, st) ==
    /\ returned' = Append(returned, [key |-> work_key, outcome |-> outcome,
                                     value |-> value])
    /\ stats' = st
    /\ processed_works' = Processed(processed_works, work_key, value)
    /\ pc' = "call_idle"
    /\ DropFetchFrame
    /\ SleepOnly(FALSE)
    /\ UNCHANGED << call_frame, call_args, caller >>

\* if work_key in self.processed_works: return None -- else fetch_page(url)
ExtractCall(ad, wd) ==
    /\ entry = "call"
    /\ pc = "call_idle"
    /\ Len(returned) < MaxCalls
    /\ call_args' = [author_data |-> ad, work_data |-> wd]
    /\ IF WorkKey(ad.tlg_id, wd.work_id) \in processed_works
         THEN /\ returned' = Append(returned, [key |-> WorkKey(ad.tlg_id, wd.work_id),
                                               outcome |-> "None", value |-> << >>])
              /\ UNCHANGED << pc, url, attempt, content, waits, sent, caller >>
         ELSE /\ CallFetch(wd.url, "call")
              /\ UNCHANGED returned
    /\ SleepOnly(FALSE)
    /\ UNCHANGED << call_frame, stats, processed_works >>

\* if not html_content: failed_extractions += 1; return None
CallFetchFailed ==
    /\ pc = "ret"
    /\ caller = "call"
    /\ ~Truthy(content)
    /\ CallEnds("None", << >>, Counted("failed_extractions"))

\* extract_greek_from_html raises: nothing around the call catches it
CallGreekRaises ==
    /\ pc = "ret"
    /\ caller = "call"
    /\ Truthy(content)
    /\ CallEnds("raised", << >>, stats)

\* if not clean_text: failed_extractions += 1; return None
CallNoGreek ==
    /\ pc = "ret"
    /\ caller = "call"
    /\ Truthy(content)
    /\ CallEnds("None", << >>, Counted("failed_extractions"))

\* preserve_extraction_references raises: failed_extractions += 1; return None
CallPreserveRaises ==
    /\ pc = "ret"
    /\ caller = "call"
    /\ Truthy(content)
    /\ CallEnds("None", << >>, Counted("failed_extractions"))

\* the extraction is built and validated, counted as successful or as a
\* validation failure, its key recorded, and returned
CallPreserved ==
    /\ pc = "ret"
    /\ caller = "call"
    /\ Truthy(content)
    /\ LET reference == create_reference_from_discovery(call_args.author_data,
                                                        call_args.work_data)
           metrics == validate_extraction(ExtractedText, reference)
           extraction == [tlg_reference |-> reference,
                          text_structure |-> [raw_text |-> ExtractedText],
                          validation_metrics |-> metrics]
       IN  CallEnds("extraction", << extraction >>,
                    IF metrics.overall_valid THEN Counted("successful_extractions")
                    ELSE Counted("validation_failures"))

\* the arguments of the calls: an author of the index and one of their works
CallAuthors == { IndexAuthor("0012"), IndexAuthor("59") }
CallWorks(ad) == { WorkDict(w, urls_to_try(ad.tlg_id, w)[1], MinContent + 1) : w \in {1, 2} }

\* a fresh extractor whose session is set up
InitCalls ==
    /\ InitIdle
    /\ InitMoreIdleExcept("")
    /\ InitFilterIdle
    /\ InitPreserveIdle
    /\ InitToolsIdle
    /\ script = "integrated"
    /\ entry = "call"
    /\ pc = "call_idle"
    /\ max_retries = index_max_retries
    /\ index_authors = << >>
    /\ server_works = {1, 2}
    /\ tlg_id = ""
    /\ max_works = DefaultMaxWorks
    /\ catalog = << >>

NextCalls ==
    \/ NextFetch
    \/ \E ad \in CallAuthors : \E wd \in CallWorks(ad) : ExtractCall(ad, wd)
    \/ CallFetchFailed
    \/ CallGreekRaises
    \/ CallNoGreek
    \/ CallPreserveRaises
    \/ CallPreserved

SpecCalls == InitCalls /\ [][NextCalls]_vars

-----------------------------------------------------------------------------
(* The work URLs of the discoverer, read back by parse_url_reference.  URLs  *)
(* are sequences of code points, as the author IDs of parse_index_page are.  *)

BASE_URL_text == << 104, 116, 116, 112, 58, 47, 47, 50, 49, 55, 46, 55, 49, 46, 50, 51, 49, 46, 53, 52, 58, 56, 48, 56, 48 >>

\* f"{work_id:03d}"
work_id_str(n) ==
    IF n < 1000
      THEN << 48 + (n \div 100), 48 + ((n \div 10) % 10), 48 + (n % 10) >>
      ELSE << 48 + (n \div 1000), 48 + ((n \div 100) % 10), 48 + ((n \div 10) % 10),
              48 + (n % 10) >>

\* urls_to_try: f"{BASE_URL}/TLG{tlg_id}/{tlg_id}_{work_id_str}.htm" and the %5F form
url_texts(a, n) ==
    << BASE_URL_text \o << 47, 84, 76, 71 >> \o a \o << 47 >> \o a \o << 95 >>
           \o work_id_str(n) \o << 46, 104, 116, 109 >>,
       BASE_URL_text \o << 47, 84, 76, 71 >> \o a \o << 47 >> \o a \o << 37, 53, 70 >>
           \o work_id_str(n) \o << 46, 104, 116, 109 >> >>

\* \d{n} at position i
DigitsAt(u, i, n) == \A k \in i..(i + n - 1) : k <= Len(u) /\ IsDigit(u[k])

\* the pattern /TLG(\d{4})/\d{4} sep (\d{3})\.htm matches at position i
ReferenceAt(u, i, sep) ==
    /\ HasExactAt(u, i, << 47, 84, 76, 71 >>)
    /\ DigitsAt(u, i + 4, 4)
    /\ HasExactAt(u, i + 8, << 47 >>)
    /\ DigitsAt(u, i + 9, 4)
    /\ HasExactAt(u, i + 13, sep)
    /\ DigitsAt(u, i + 13 + Len(sep), 3)
    /\ HasExactAt(u, i + 16 + Len(sep), << 46, 104, 116, 109 >>)

\* re.search(pattern, url): whether it matched, group(1) and group(2)
search_reference(u, sep) ==
    IF \E i \in 1..Len(u) : ReferenceAt(u, i, sep)
      THEN LET i == CHOOSE i \in 1..Len(u) :
                        /\ ReferenceAt(u, i, sep)
                        /\ \A h \in 1..(i - 1) : ~ReferenceAt(u, h, sep)
           IN  [matched |-> TRUE, group1 |-> SubSeq(u, i + 4, i + 7),
                group2 |-> SubSeq(u, i + 13 + Len(sep), i + 15 + Len(sep))]
      ELSE [matched |-> FALSE, group1 |-> << >>, group2 |-> << >>]

\* parse_url_reference(url): the pair, or ValueError when neither pattern matches
parse_url_reference(u) ==
    LET plain == search_reference(u, << 95 >>)
        encoded == search_reference(u, << 37, 53, 70 >>)
    IN  IF plain.matched
          THEN [raised |-> "", author_id |-> plain.group1, work_id |-> plain.group2]
        ELSE IF encoded.matched
          THEN [raised |-> "", author_id |-> encoded.group1, work_id |-> encoded.group2]
        ELSE [raised |-> "ValueError", author_id |-> << >>, work_id |-> << >>]

trip_frame == << crawler_idle, filter_vars, preserve_vars, tool_vars, parse_vars,
                 main_vars, run_vars, restarts, call_vars, cleanup_vars, progress_vars >>

\* discover_author_works builds the k-th URL for work n of a parsed author
BuildUrl(i, n, k) ==
    /\ entry = "trip"
    /\ pc = "done"
    /\ i \in 1..Len(parsed)
    /\ built_for' = [tlg_id |-> parsed[i].tlg_id, work_id |-> n]
    /\ url_text' = url_texts(parsed[i].tlg_id, n)[k]
    /\ pc' = "built"
    /\ UNCHANGED << trip_frame, url_reference >>

\* parse_url_reference(url)
ParseUrl ==
    /\ entry = "trip"
    /\ pc = "built"
    /\ url_reference' = parse_url_reference(url_text)
    /\ pc' = "read_back"
    /\ UNCHANGED << trip_frame, built_for, url_text >>

\* index rows with four cells and a link in the first
TripRows ==
    [cells : { 4 }, has_link : { TRUE }, raises : { FALSE },
     link_text : LinkTexts \cup { << 84, 76, 71, 32, 49, 50, 51, 52, 53 >> }]

\* parse_index_page on a one-row index, then a work URL of the author found
InitTrip ==
    /\ InitIdle
    /\ InitMoreIdleExcept("parse")
    /\ InitFilterIdle
    /\ InitPreserveIdle
    /\ InitToolsIdle
    /\ max_retries = 1
    /\ index_authors = << >>
    /\ server_works = {}
    /\ tlg_id = ""
    /\ max_works = DefaultMaxWorks
    /\ catalog = << >>
    /\ script = "discover"
    /\ entry = "trip"
    /\ pc = "parse_loop"
    /\ soup \in { << r >> : r \in TripRows }
    /\ row_i = 0
    /\ parsed = << >>

NextTrip ==
    \/ ParseRow
    \/ ParseReturn
    \/ \E i \in 1..MaxRows, n \in 1..DefaultMaxWorks, k \in 1..2 : BuildUrl(i, n, k)
    \/ ParseUrl

SpecTrip == InitTrip /\ [][NextTrip]_vars

-----------------------------------------------------------------------------
(* cleanup_mac_duplicates.py.  A path is a record of the sub-directory, the  *)
(* stem of the file name and the mark before ".xml": "", " 2" or "-2"; the   *)
(* disk maps the paths of the XML files to their sizes.                      *)

MaxFiles == 4

cleanup_frame == << crawler_idle, filter_vars, preserve_vars, parse_vars, main_vars,
                    run_vars, restarts, call_vars, trip_vars, progress_vars >>

\* file_path.name
file_name(p) == p.stem \o p.mark \o ".xml"

\* filename.endswith(" 2.xml") or filename.endswith("-2.xml")
is_mac_copy(p) == p.mark \in { " 2", "-2" }

\* filename.replace(" 2.xml", ".xml"), filename.replace("-2.xml", ".xml"), or filename
base_name(p) == p.stem \o ".xml"

\* the positions of fs where a base name occurs for the first time
FirstOfBase(fs) ==
    SelectSeq([i \in 1..Len(fs) |-> i],
              LAMBDA i : \A j \in 1..(i - 1) : base_name(fs[j]) # base_name(fs[i]))

\* find_potential_duplicates: the files by base name, in the order the
\* defaultdict got its keys, without the groups of one file
find_potential_duplicates(xml_files) ==
    LET firsts == FirstOfBase(xml_files)
        potential_groups ==
            [k \in 1..Len(firsts) |->
                [base_name |-> base_name(xml_files[firsts[k]]),
                 files |-> SelectSeq(xml_files,
                              LAMBDA p : base_name(p) = base_name(xml_files[firsts[k]]))]]
    IN  SelectSeq(potential_groups, LAMBDA g : Len(g.files) > 1)

\* min(files, key=lambda p: len(p.name)): the first of the shortest names
simplest_name(paths) ==
    paths[CHOOSE i \in 1..Len(paths) :
            /\ \A j \in 1..Len(paths) : Len(file_name(paths[i])) <= Len(file_name(paths[j]))
            /\ \A j \in 1..(i - 1) : Len(file_name(paths[j])) > Len(file_name(paths[i]))]

\* analyze_duplicate_group(files): the original and the potential duplicates
analyze_duplicate_group(paths) ==
    LET originals == SelectSeq(paths, LAMBDA p : ~is_mac_copy(p))
        duplicates == SelectSeq(paths, LAMBDA p : is_mac_copy(p))
    IN  IF Len(originals) = 1
          THEN [original |-> originals[1], duplicates |-> duplicates]
        ELSE IF Len(originals) > 1
          THEN [original |-> simplest_name(originals),
                duplicates |-> duplicates \o
                    SelectSeq(originals, LAMBDA f : f # simplest_name(originals))]
        ELSE [original |-> simplest_name(paths),
              duplicates |-> SelectSeq(paths, LAMBDA f : f # simplest_name(paths))]

\* a variant that does not compare the sizes
verify_duplicates_unsized(d, original, duplicates) ==
    IF original \notin DOMAIN d THEN << >>
    ELSE SelectSeq(duplicates, LAMBDA p : p \in DOMAIN d)

\* verify_duplicates(original, duplicates): those that exist with the original's size
verify_duplicates(d, original, duplicates) ==
    IF original \notin DOMAIN d THEN << >>
    ELSE SelectSeq(duplicates, LAMBDA p : p \in DOMAIN d /\ d[p] = d[original])

\* a variant that takes --dry-run for the last word
dry_run_flag(args) == args.dry_run

\* dry_run = not args.execute
dry_run(args) == ~args.execute

\* the orders in which rglob may list the files
RECURSIVE Listings(_)
Listings(paths) ==
    IF paths = {} THEN { << >> }
    ELSE UNION { { << p >> \o l : l \in Listings(paths \ { p }) } : p \in paths }

\* the files of the group at hand that verify_duplicates lets through
Verified ==
    LET analysis == analyze_duplicate_group(duplicate_groups[group_i + 1].files)
    IN  verify_duplicates(disk, analysis.original, analysis.duplicates)

\* find_potential_duplicates(args.directory); return if there is no group
CleanupFind(xml_files) ==
    /\ script = "cleanup"
    /\ pc = "find"
    /\ duplicate_groups' = find_potential_duplicates(xml_files)
    /\ group_i' = 0
    /\ pc' = IF find_potential_duplicates(xml_files) = << >> THEN "done" ELSE "groups"
    /\ UNCHANGED << cleanup_frame, tool_vars, report >>

\* one turn of the loop over the groups: analyze, verify, remove; unlink may
\* fail for any of the files (OSError), which is logged and skipped
CleanupGroup(failing) ==
    /\ script = "cleanup"
    /\ pc = "groups"
    /\ group_i < Len(duplicate_groups)
    /\ LET verified == Verified
           removed == SelectSeq(verified, LAMBDA p : p \notin failing)
       IN  /\ failing \subseteq { verified[i] : i \in 1..Len(verified) }
           /\ IF dry_run(argv)
                THEN /\ failing = {}
                     /\ report' = report \o verified
                     /\ disk' = disk
                ELSE /\ report' = report \o removed
                     /\ disk' = [p \in DOMAIN disk \ { removed[i] : i \in 1..Len(removed) }
                                   |-> disk[p]]
    /\ group_i' = group_i + 1
    /\ UNCHANGED << cleanup_frame, argv, disk_before, duplicate_groups, pc >>

\* the summary after the last group
CleanupSummary ==
    /\ script = "cleanup"
    /\ pc = "groups"
    /\ group_i = Len(duplicate_groups)
    /\ pc' = "done"
    /\ UNCHANGED << cleanup_frame, tool_vars, cleanup_vars >>

\* the XML files a directory tree may hold
XmlPaths ==
    [dir : { "a", "b" }, stem : { "x" }, mark : { "", " 2" }]
    \cup [dir : { "a" }, stem : { "yy" }, mark : { "", "-2" }]

Trees == UNION { [paths -> { 1, 2 }] :
                   paths \in { f \in SUBSET XmlPaths : Cardinality(f) <= MaxFiles } }

\* one run of the script on an existing directory
InitCleanup ==
    /\ InitNoCrawl
    /\ InitFilterIdle
    /\ InitPreserveIdle
    /\ script = "cleanup"
    /\ entry = "main"
    /\ pc = "find"
    /\ argv \in [dry_run : BOOLEAN, execute : BOOLEAN]
    /\ disk \in Trees
    /\ disk_before = disk

NextCleanup ==
    \/ \E xml_files \in Listings(DOMAIN disk) : CleanupFind(xml_files)
    \/ \E failing \in SUBSET DOMAIN disk : CleanupGroup(failing)
    \/ CleanupSummary

SpecCleanup == InitCleanup /\ [][NextCleanup]_vars

-----------------------------------------------------------------------------
(* DEVELOPMENT_PROGRESS.py: add_development_progress_entry, called any      *)
(* number of times on a progress file that is missing at first.  The file   *)
(* and the contents are texts, sequences of code points.                    *)

MaxEntries == 3         \* most calls in one behaviour

progress_frame == << crawler_idle, filter_vars, preserve_vars, tool_vars, parse_vars,
                     main_vars, run_vars, restarts, call_vars, trip_vars, cleanup_vars >>

\* the lines of initial_content before the first entry
HeaderLines ==
    << \* # OpenGreek Development Progress Log
       << 35, 32, 79, 112, 101, 110, 71, 114, 101, 101, 107, 32, 68, 101, 118,
          101, 108, 111, 112, 109, 101, 110, 116, 32, 80, 114, 111, 103, 114,
          101, 115, 115, 32, 76, 111, 103 >>,
       \* (empty)
       << >>,
       \* This document tracks development progress for the OpenGreek TLG extraction project.
       << 84, 104, 105, 115, 32, 100, 111, 99, 117, 109, 101, 110, 116, 32, 116,
          114, 97, 99, 107, 115, 32, 100, 101, 118, 101, 108, 111, 112, 109,
          101, 110, 116, 32, 112, 114, 111, 103, 114, 101, 115, 115, 32, 102,
          111, 114, 32, 116, 104, 101, 32, 79, 112, 101, 110, 71, 114, 101, 101,
          107, 32, 84, 76, 71, 32, 101, 120, 116, 114, 97, 99, 116, 105, 111,
          110, 32, 112, 114, 111, 106, 101, 99, 116, 46 >>,
       \* Entries are automatically generated using DEVELOPMENT_PROGRESS.py.
       << 69, 110, 116, 114, 105, 101, 115, 32, 97, 114, 101, 32, 97, 117, 116,
          111, 109, 97, 116, 105, 99, 97, 108, 108, 121, 32, 103, 101, 110, 101,
          114, 97, 116, 101, 100, 32, 117, 115, 105, 110, 103, 32, 68, 69, 86,
          69, 76, 79, 80, 77, 69, 78, 84, 95, 80, 82, 79, 71, 82, 69, 83, 83,
          46, 112, 121, 46 >>,
       \* (empty)
       << >>,
       \* **IMPORTANT**: Do not manually edit entries between the delimiter lines.
       << 42, 42, 73, 77, 80, 79, 82, 84, 65, 78, 84, 42, 42, 58, 32, 68, 111,
          32, 110, 111, 116, 32, 109, 97, 110, 117, 97, 108, 108, 121, 32, 101,
          100, 105, 116, 32, 101, 110, 116, 114, 105, 101, 115, 32, 98, 101,
          116, 119, 101, 101, 110, 32, 116, 104, 101, 32, 100, 101, 108, 105,
          109, 105, 116, 101, 114, 32, 108, 105, 110, 101, 115, 46 >>,
       \* Use the script: `python DEVELOPMENT_PROGRESS.py "Your report content"`
       << 85, 115, 101, 32, 116, 104, 101, 32, 115, 99, 114, 105, 112, 116, 58,
          32, 96, 112, 121, 116, 104, 111, 110, 32, 68, 69, 86, 69, 76, 79, 80,
          77, 69, 78, 84, 95, 80, 82, 79, 71, 82, 69, 83, 83, 46, 112, 121, 32,
          34, 89, 111, 117, 114, 32, 114, 101, 112, 111, 114, 116, 32, 99, 111,
          110, 116, 101, 110, 116, 34, 96 >>,
       \* (empty)
       << >>,
       \* ---
       << 45, 45, 45 >> >>

Delimiter == << 45, 45, 45 >>          \* "---"
\* "Use the script:"
UseTheScript == << 85, 115, 101, 32, 116, 104, 101, 32, 115, 99, 114, 105, 112, 116, 58 >>

\* f"## {date_only}: Development Progress Update", on the day of the model
entry_header ==
    << 35, 35, 32, 50, 48, 50, 53, 45, 48, 49, 45, 48, 49, 58, 32, 68, 101,
       118, 101, 108, 111, 112, 109, 101, 110, 116, 32, 80, 114, 111, 103,
       114, 101, 115, 115, 32, 85, 112, 100, 97, 116, 101 >>

\* f"**Timestamp**: {timestamp}", now seconds after midnight (now < 10)
timestamp_line(now) ==
    << 42, 42, 84, 105, 109, 101, 115, 116, 97, 109, 112, 42, 42, 58, 32, 50,
       48, 50, 53, 45, 48, 49, 45, 48, 49, 32, 48, 48, 58, 48, 48, 58, 48 >> \o << 48 + now >>

\* entry_content: the f-string of the entry
entry_content(new_content, now) ==
    << 10 >> \o entry_header \o << 10 >> \o timestamp_line(now) \o << 10, 10 >>
        \o Strip(new_content) \o << 10, 10 >> \o Delimiter \o << 10 >>

\* initial_content: the f-string of a new file
initial_content(new_content, now) ==
    Join(HeaderLines) \o << 10 >> \o entry_content(new_content, now) \o << 10 >>

\* progress_file.read_text: a text-mode read turns "\r\n" and "\r" into "\n"
read_text(t) ==
    LET kept == SelectSeq([i \in 1..Len(t) |-> i],
                          LAMBDA i : ~(t[i] = 10 /\ i > 1 /\ t[i - 1] = 13))
    IN  [k \in 1..Len(kept) |-> IF t[kept[k]] = 13 THEN 10 ELSE t[kept[k]]]

\* progress_file.write_text: a text-mode write puts os.linesep, "\n" here,
\* for every "\n" and leaves the other characters as they are
write_text(t) == t

\* "Use the script:" in line
Contains(line, lit) ==
    \E i \in 1..(Len(line) - Len(lit) + 1) : SubSeq(line, i, i + Len(lit) - 1) = lit

\* the number of lines before the insertion point: through the first "---"
\* after a line with "Use the script:", or all of them
insert_index(lines) ==
    LET hits == { i \in 1..Len(lines) :
                    /\ Strip(lines[i]) = Delimiter
                    /\ \E j \in 1..(i - 1) : Contains(lines[j], UseTheScript) }
    IN  IF hits = {} THEN Len(lines)
        ELSE CHOOSE i \in hits : \A j \in hits : i <= j

\* new_lines
new_lines(lines, new_content, now) ==
    LET at == insert_index(lines)
    IN  SubSeq(lines, 1, at)
            \o Split(Strip(entry_content(new_content, now)))
            \o (IF at < Len(lines) THEN << << >> >> ELSE << >>)
            \o SubSeq(lines, at + 1, Len(lines))

\* the first call: the file does not exist
ProgressCreate(new_content, now) ==
    /\ script = "progress"
    /\ progress_file = << >>
    /\ Len(entry_log) < MaxEntries
    /\ clock' = now
    /\ progress_file' = write_text(initial_content(new_content, now))
    /\ entry_log' = Append(entry_log, Strip(entry_content(new_content, now)))
    /\ UNCHANGED << progress_frame, pc >>

\* a later call
ProgressInsert(new_content, now) ==
    /\ script = "progress"
    /\ progress_file # << >>
    /\ Len(entry_log) < MaxEntries
    /\ clock' = now
    /\ progress_file' =
          write_text(Join(new_lines(Split(read_text(progress_file)), new_content, now)))
    /\ entry_log' = Append(entry_log, Strip(entry_content(new_content, now)))
    /\ UNCHANGED << progress_frame, pc >>

\* the report contents of the calls
ReportLine == << 112, 97, 114, 115, 101, 114 >>        \* "parser"
Contents ==
    { << >>,
      ReportLine,
      << 32 >> \o ReportLine \o << 10 >>,
      ReportLine \o << 10 >> \o Delimiter \o << 10 >> \o ReportLine,
      UseTheScript \o << 10 >> \o Delimiter,
      entry_header \o << 10, 10 >> \o Delimiter,
      ReportLine \o << 13, 10 >> \o ReportLine,
      ReportLine \o << 13 >> \o ReportLine }

InitProgress ==
    /\ InitNoCrawl
    /\ InitFilterIdle
    /\ InitPreserveIdle
    /\ InitToolsIdle
    /\ script = "progress"
    /\ entry = "add_development_progress_entry"
    /\ pc = "called"

NextProgress ==
    \/ \E new_content \in Contents, now \in { clock, clock + 1 } : ProgressCreate(new_content, now)
    \/ \E new_content \in Contents, now \in { clock, clock + 1 } : ProgressInsert(new_content, now)

SpecProgress == InitProgress /\ [][NextProgress]_vars

-----------------------------------------------------------------------------
(* Properties of the work discoverer *)

\* the coroutine is inside the probe of one candidate
Probing == \/ pc \in {"fetch", "await", "ret"} /\ caller = "work"
           \/ pc \in {"v_get", "v_await"}

\* the probe of a candidate has just ended (its results are still in probes)
CandidateCompleted == pc \in {"works_loop", "works_return"} /\ probes # << >>

\* a fetched result that is a page above the minimum content threshold
LongPage(c) == c # None /\ c > MinContent

\* some page fetched for the candidate is below the threshold, none is above it
ShortPageCandidate ==
    /\ \E i \in 1..Len(probes) : probes[i].content # None /\ probes[i].content < MinContent
    /\ \A i \in 1..Len(probes) : ~LongPage(probes[i].content)

\* the number of the work found last (0 when none was found)
LastFoundId == IF works = << >> THEN 0 ELSE
               CHOOSE n \in 1..work_id : Pad3(n) = works[Len(works)].work_id

\* C1: a candidate whose fetched page is shorter than the minimum content
\* threshold (and for which no encoding returned a page above it) is treated as
\* absent: the step that ends its probe appends no work record and adds exactly
\* one to the consecutive-miss counter.
C1_ShortPageIsMiss ==
    [][ (CandidateCompleted' /\ probes' # probes /\ ShortPageCandidate')
          => /\ works' = works
             /\ ~work_found'
             /\ consecutive_misses' = consecutive_misses + 1 ]_vars

C1_Witness ==
    /\ pc = "works_loop"
    /\ Len(probes) = 2
    /\ probes[1].content = MinContent - 1
    /\ probes[2].content = None
    /\ consecutive_misses = 2
    /\ Len(works) = 1

\* C2: the counter holds the number of candidates missed in a row since the last
\* found work (a found work resets it to 0); a candidate is probed only while
\* fewer than 20 were missed in a row; and discovery returns only at the 20th
\* consecutive miss or when max_works candidates have been examined.
C2_StopsAtMissLimit ==
    /\ (pc = "works_loop" \/ Probing) =>
          consecutive_misses = (work_id - 1) - LastFoundId
    /\ Probing => (consecutive_misses < 20 /\ work_id <= max_works)
    /\ (entry = "works" /\ pc \in {"works_return", "done"}) =>
          \/ /\ consecutive_misses = 20
             /\ work_id <= max_works
             /\ work_id - LastFoundId = 20
          \/ /\ work_id = max_works + 1
             /\ consecutive_misses < 20
             /\ consecutive_misses = max_works - LastFoundId

C2_Witness ==
    /\ script = "discover"
    /\ pc = "works_return"
    /\ consecutive_misses = 20
    /\ Len(works) = 2
    /\ work_id = 22

\* the URL the discoverer is to build for the k-th encoding of a candidate
ExpectedUrl(a, w, k) ==
    IF k = 1 THEN "http://217.71.231.54:8080/TLG" \o a \o "/" \o a \o "_" \o Pad3(w) \o ".htm"
    ELSE "http://217.71.231.54:8080/TLG" \o a \o "/" \o a \o "%5F" \o Pad3(w) \o ".htm"

\* C3: a candidate is probed under the underscore URL first and the %5F URL
\* second; it is found if and only if one of the two returned a page above the
\* minimum length; no encoding is tried after one that was found; and the works
\* list gets exactly one record for a found candidate, none otherwise, so no
\* work ID occurs twice.
C3_TwoEncodings ==
    /\ Probing =>
          /\ url_idx \in {1, 2}
          /\ url = ExpectedUrl(tlg_id, work_id, url_idx)
          /\ Len(probes) = url_idx - 1
    /\ \A i \in 1..Len(probes) :
          /\ i <= 2
          /\ probes[i].url = ExpectedUrl(tlg_id, probes[i].w, i)
          /\ (i < Len(probes) => ~LongPage(probes[i].content))
    /\ CandidateCompleted =>
          /\ work_found <=> (\E i \in 1..Len(probes) : LongPage(probes[i].content))
          /\ (~work_found => Len(probes) = 2)
          /\ work_found =>
                /\ works # << >>
                /\ works[Len(works)].work_id = Pad3(probes[1].w)
                /\ works[Len(works)].url = probes[Len(probes)].url
                /\ works[Len(works)].estimated_size = probes[Len(probes)].content
          /\ (~work_found /\ works # << >>) =>
                works[Len(works)].work_id # Pad3(probes[1].w)
    /\ \A i, j \in 1..Len(works) : i < j => works[i].work_id # works[j].work_id

C3_Witness ==
    /\ script = "discover"
    /\ pc = "works_loop"
    /\ work_found
    /\ Len(probes) = 2
    /\ probes[1].content = MinContent
    /\ LongPage(probes[2].content)
    /\ Len(works) = 2

-----------------------------------------------------------------------------
(* Properties of fetch_page *)

\* C4: one call issues at most max_retries GETs; the wait after the failure of
\* attempt k is 2^k base delays; while attempts remain every failure is followed
\* by such a wait and by another attempt; and a call whose attempts are all used
\* up returns the absent result.
C4_BoundedRetries ==
    /\ pc \in {"fetch", "await", "ret", "done"}
    /\ sent <= max_retries
    /\ \A i \in 1..Len(waits) : waits[i] = 2^(i - 1)
    /\ (pc = "fetch" /\ attempt < max_retries) => (sent = attempt /\ Len(waits) = attempt)
    /\ pc = "await" => (sent = attempt + 1 /\ Len(waits) = attempt)
    /\ (pc \in {"ret", "done"} /\ attempt = max_retries) =>
          (content = None /\ sent = max_retries /\ Len(waits) >= max_retries - 1)

C4_Witness ==
    /\ pc = "done"
    /\ max_retries = 3
    /\ sent = 3
    /\ waits = << 1, 2, 4 >>
    /\ content = None

-----------------------------------------------------------------------------
(* Properties of a whole crawl *)

\* C5: at most one HTTP request is in flight, and one is in flight only while
\* the coroutine waits for its answer.
C5_OneRequestInFlight ==
    /\ inflight \in {0, 1}
    /\ inflight = 1 <=> pc \in {"await", "dl_await", "v_await"}

C5_Witness ==
    /\ inflight = 1
    /\ caller = "work"
    /\ url_idx = 2
    /\ processed_authors # {}

\* C6: every request that follows another one is issued after a sleep that
\* came after the earlier request's answer.
C6_AlwaysASleepBetweenRequests == ~unslept

-----------------------------------------------------------------------------
(* Properties of the Greek text filter *)

\* membership of a line in a joined text
InLines(l, text) == \E k \in 1..Len(Split(text)) : Split(text)[k] = l

\* the stripped, non-empty lines of mixed_text
InputLines ==
    { Strip(Split(mixed_text)[i]) : i \in 1..Len(Split(mixed_text)) } \ { << >> }

\* a non-empty line made only of characters of U+0370-03FF and U+1F00-1FFF
AllGreekLine(l) ==
    /\ l # << >>
    /\ \A i \in 1..Len(l) : (l[i] >= 880 /\ l[i] <= 1023) \/ (l[i] >= 7936 /\ l[i] <= 8191)

Filtered == script = "filter" /\ pc = "done"

\* C7: every non-empty line of the input that consists only of characters in
\* U+0370-03FF or U+1F00-1FFF is a line of the returned greek_text and not a
\* line of the returned metadata, whatever its length.
C7_AllGreekLineIsText ==
    Filtered =>
        \A l \in InputLines :
            AllGreekLine(l) => /\ InLines(l, separated.greek_text)
                               /\ ~InLines(l, separated.metadata)

\* an all-Greek line of exactly 20 characters and one of a single character,
\* both returned as greek_text
C7_Witness ==
    /\ Filtered
    /\ mixed_text = GreekTen \o GreekTen \o << 10 >> \o GreekOne
    /\ separated.greek_text = mixed_text
    /\ separated.metadata = << >>

\* C8: every line that matches no metadata pattern and whose Greek ratio is
\* not below 0.1 is a line of the returned greek_text and not of the metadata.
C8_AmbiguousLineIsText ==
    Filtered =>
        \A l \in InputLines :
            (~is_metadata(l) /\ 10 * greek_chars(l) >= Len(l))
                => /\ InLines(l, separated.greek_text)
                   /\ ~InLines(l, separated.metadata)

\* a line of ratio exactly 0.1 (one Greek letter in ten characters) is kept
\* as text, next to a line of lower ratio that is not
C8_Witness ==
    /\ Filtered
    /\ mixed_text = GreekOne \o Editorial \o << 10 >> \o Editorial
    /\ separated.greek_text = GreekOne \o Editorial
    /\ separated.metadata = Editorial

-----------------------------------------------------------------------------
(* Properties of the reference preserver and the validator *)

Referenced == script = "preserve" /\ pc \in { "validate", "done" }

Validated == script = "preserve" /\ pc = "done"

\* C9: for an author ID outside the abbreviation table the citation is
\* "TLG" + the ID exactly as given, a space and the work ID, and the
\* reference's traditional_abbreviation is "TLG" + the ID; for an ID in the
\* table both carry the table's abbreviation.
C9_UnknownAuthorFallsBackToTLGId ==
    Referenced =>
        LET id == author_data.tlg_id
            w == work_data.work_id
        IN  IF id \in DOMAIN TLG_ABBREVIATIONS
              THEN /\ tlg_reference.traditional_abbreviation = TLG_ABBREVIATIONS[id]
                   /\ tlg_reference.traditional_citation =
                        TLG_ABBREVIATIONS[id] \o " " \o
                          (IF HasWorkMapping(id, w) THEN WORK_MAPPINGS[id][w].abbrev ELSE w)
              ELSE /\ tlg_reference.traditional_abbreviation = "TLG" \o id
                   /\ tlg_reference.traditional_citation = "TLG" \o id \o " " \o w

\* the unpadded ID "12" is no key of the table: the label is "TLG12"
C9_Witness ==
    /\ Referenced
    /\ author_data.tlg_id = "12"
    /\ work_data.work_id = "001"
    /\ tlg_reference.traditional_citation = "TLG12 001"
    /\ tlg_reference.traditional_abbreviation = "TLG12"

\* the two threshold checks on the extracted text
LengthCheck == Len(clean_text) >= min_text_length

RatioCheck ==
    LET alpha == Cardinality({ i \in 1..Len(clean_text) : IsAlpha(clean_text[i]) })
        greek == Cardinality({ i \in 1..Len(clean_text) :
                                 IsAlpha(clean_text[i]) /\ IsGreek(clean_text[i]) })
    IN  alpha > 0 /\ 5 * greek >= alpha

\* every required field of the reference has a value
ReferenceComplete ==
    \A k \in 1..Len(required_reference_fields) :
        tlg_reference[required_reference_fields[k]] # ""

\* C10 (as the code has it): the text flag is exactly the AND of the length
\* check and the Greek-ratio check, and the overall flag is exactly the AND of
\* the text flag and the completeness of the reference's required fields.
C10_FlagIsTextChecksAndCompleteness ==
    Validated =>
        /\ validation_metrics.text_validation.valid <=> (LengthCheck /\ RatioCheck)
        /\ validation_metrics.overall_valid
             <=> (LengthCheck /\ RatioCheck /\ ReferenceComplete)

\* a text that passes both checks, whose author has no name on the index page
C10_Witness ==
    /\ Validated
    /\ LengthCheck
    /\ RatioCheck
    /\ author_data.name = ""
    /\ validation_metrics.text_validation.valid
    /\ ~validation_metrics.overall_valid

\* C10 (as stated): the overall flag is exactly the AND of the length check
\* and the Greek-ratio check.
C10_FlagIsTextChecksOnly ==
    Validated =>
        (validation_metrics.overall_valid <=> (LengthCheck /\ RatioCheck))

-----------------------------------------------------------------------------
(* Properties of the catalogue tools *)

CoverageDone ==
    script = "author_catalog_tools" /\ pc = "done" /\ argv.command = "coverage"

NormaliseDone ==
    script = "author_catalog_tools" /\ pc = "done" /\ argv.command = "normalise"

\* the (author_id, work_id) pairs a catalogue file holds, whatever the language
CatalogueKeys(catalogue) ==
    UNION { { << a, w >> : w \in DOMAIN DictGet(catalogue[a], "works", << >>) } :
            a \in DOMAIN catalogue }

LegacyBefore == disk_before[argv.legacy].data

TlgBefore == disk_before[argv.tlg].data

\* the data rows of the CSV that was written
DataRows == Tail(disk[argv.output].rows)

\* C12: every row of the coverage CSV is labelled "bot" when its work is in
\* both catalogues, "tlg" when it is only in the TLG catalogue and "leg" when
\* it is only in the legacy catalogue, whatever languages were selected.
C12_LabelTellsTheCatalogues ==
    CoverageDone =>
        \A i \in 1..Len(DataRows) :
            LET key == << DataRows[i][1], DataRows[i][2] >>
                in_legacy == key \in CatalogueKeys(LegacyBefore)
                in_tlg == key \in CatalogueKeys(TlgBefore)
            IN  DataRows[i][5] = IF in_legacy /\ in_tlg THEN "bot"
                                 ELSE IF in_tlg THEN "tlg"
                                 ELSE "leg"

\* the keys of the works of a catalogue that pass the language selection
SelectedKeys(catalogue) == DOMAIN collect_works(catalogue, argv.languages)

SameButCasing(a, b) ==
    /\ Len(a) = Len(b)
    /\ \A i \in 1..Len(a) : ToLower(a[i]) = ToLower(b[i])

InputPaths ==
    IF argv.command = "normalise" THEN { argv.input } ELSE { argv.legacy, argv.tlg }

\* C15: after the normalise or the coverage command every input file has the
\* content it had before, whatever paths the command line names.
C15_InputFilesUntouched ==
    (script = "author_catalog_tools" /\ pc = "done") =>
        \A p \in InputPaths : disk[p] = disk_before[p]

-----------------------------------------------------------------------------
(* Properties of the index parser *)

\* d is the number that follows 'TLG' and white space somewhere in text
IsIdIn(d, text) ==
    /\ Len(d) >= 1
    /\ \E i \in 1..Len(text) : \E j \in (i + 4)..Len(text) :
          /\ SubSeq(text, i, i + 2) = TLG
          /\ \A k \in (i + 3)..(j - 1) : IsSpace(text[k])
          /\ SubSeq(text, j, j + Len(d) - 1) = d
          /\ \A k \in 1..Len(d) : d[k] \in 48..57
          /\ (j + Len(d) > Len(text) \/ text[j + Len(d)] \notin 48..57)

\* the row carries the ID pattern: 'TLG', white space, a number
CarriesPattern(row) ==
    /\ row.has_link
    /\ \E i \in 1..Len(row.link_text) : \E j \in (i + 4)..Len(row.link_text) :
          /\ SubSeq(row.link_text, i, i + 2) = TLG
          /\ \A k \in (i + 3)..(j - 1) : IsSpace(row.link_text[k])
          /\ row.link_text[j] \in 48..57

\* the rows visited so far
Visited == SubSeq(soup, 1, row_i)

\* parsed holds, in row order, one record for each of the given rows
RecordsOf(rows) ==
    /\ Len(parsed) = Len(rows)
    /\ \A i \in 1..Len(rows) : IsIdIn(parsed[i].tlg_id, rows[i].link_text)

Parsing == script = "discover" /\ entry = "parse"

\* C17 (as the code has it): at every point of the parse the records are, in
\* row order, one for each visited row that has at least four cells, carries
\* the ID pattern in the first link of its first cell and was read without an
\* error, and none for any other row: such a row is skipped and the records
\* of the rows before and after it are those of a parse without it.
C17_OneRecordPerWellFormedRow ==
    Parsing =>
        RecordsOf(SelectSeq(Visited,
                            LAMBDA row : row.cells >= 4 /\ CarriesPattern(row)
                                         /\ ~row.raises))

\* a row that raises and then a row with the pattern: one record, of the second
C17_Witness ==
    /\ Parsing
    /\ pc = "done"
    /\ soup = << [cells |-> 4, has_link |-> TRUE, link_text |-> << 84, 76, 71, 32, 48, 48, 49, 50 >>, raises |-> TRUE],
                 [cells |-> 6, has_link |-> TRUE, link_text |-> << 32, 84, 76, 71, 32, 32, 53, 57, 32 >>, raises |-> FALSE] >>
    /\ parsed = << [tlg_id |-> << 53, 57 >>] >>

\* C17 (as stated): the records are, in row order, one for each row that
\* carries the ID pattern and was read without an error, and none for any
\* other row.
C17_OneRecordPerPatternRow ==
    Parsing =>
        RecordsOf(SelectSeq(Visited,
                            LAMBDA row : CarriesPattern(row) /\ ~row.raises))

-----------------------------------------------------------------------------
(* Properties of the top level of the scripts *)

\* C19: every script that ends after an unexpected exception reached its top
\* level has printed a message and ends with a non-zero exit status.
C19_UnexpectedExceptionExitsNonZero ==
    (script = "main" /\ pc = "exited" /\ raised = "Exception") =>
        /\ Len(stdout) >= 1
        /\ exit_status # 0

-----------------------------------------------------------------------------
(* Properties of the extraction run and of the crawls *)

\* the references of the entries that are, or are going to be, persisted
PersistedReferences ==
    { extracted_works[i].tlg_reference : i \in 1..Len(extracted_works) }
    \cup (IF pc = "done"
            THEN { corpus.works[i].tlg_reference : i \in 1..Len(corpus.works) }
            ELSE {})

\* C11: every entry of extracted_works, and every entry of the corpus that
\* save_results writes, valid or not, carries a non-empty author identifier
\* (the four-digit ID of a row of the index page) and a non-empty work
\* identifier (the three-digit ID of a probed work).
C11_PersistedEntriesCarryIds ==
    script = "integrated" =>
        /\ \A r \in PersistedReferences :
              /\ Len(r.author_id) >= 1
              /\ Len(r.work_id) >= 1
              /\ \E k \in 1..Len(index_authors) :
                    r.author_id = zfill4(index_authors[k]) /\ Len(r.author_id) = 4
              /\ \E n \in 1..DefaultMaxWorks : r.work_id = Pad3(n)
        /\ pc = "done" =>
              /\ Len(corpus.works) = Len(extracted_works)
              /\ \A i \in 1..Len(corpus.works) :
                    corpus.works[i].tlg_reference = extracted_works[i].tlg_reference

\* two works were persisted, one that passed validation and one that failed it
C11_Witness ==
    /\ script = "integrated"
    /\ pc = "done"
    /\ Len(corpus.works) = 2
    /\ corpus.works[1].tlg_reference.author_id = "0012"
    /\ corpus.works[1].tlg_reference.work_id = "001"
    /\ corpus.works[1].validation_metrics.overall_valid
    /\ corpus.works[2].tlg_reference.author_id = "0059"
    /\ corpus.works[2].tlg_reference.work_id = "001"
    /\ ~corpus.works[2].validation_metrics.overall_valid

\* fetch_page has returned no page for the index: None, or an empty page
IndexAbsent ==
    /\ pc = "ret"
    /\ caller = "index"
    /\ (content = None \/ content = 0)

\* no author is known to the run
NoAuthors ==
    /\ author_entries = << >>
    /\ DOMAIN authors = {}
    /\ DOMAIN discovered_authors = {}

\* no request is on its way or about to be sent
NoRequest ==
    /\ inflight = 0
    /\ pc \notin { "fetch", "await", "works_loop", "extract_loop", "dl_get", "dl_await" }

\* C16: once fetch_page has returned no page for the index, the run knows no
\* author and sends no request any more.
C16_NoIndexNoAuthorsNoRequests == [](IndexAbsent => [](NoAuthors /\ NoRequest))

\* the index page listed two authors, could not be fetched, and the
\* extraction run ended with nothing discovered, attempted or extracted
C16_Witness ==
    /\ script = "integrated"
    /\ pc = "done"
    /\ Len(index_authors) = 2
    /\ DOMAIN discovered_authors = {}
    /\ attempted = {}
    /\ corpus.works = << >>
    /\ requested

\* C18: a crawl ends only when its loops have gone through every item: every
\* author of the index or of the priority list, every discovered work of an
\* author, every work of the catalogue, whatever failed on the way.
C18_FailureNeverStopsTheLoop ==
    /\ (script = "integrated" /\ pc \in { "done", "crashed" }) =>
          priority_i > Len(priority_authors)
    /\ (script = "download" /\ pc = "done") => works_processed = Len(catalog)
    /\ (script = "discover" /\ entry = "all" /\ pc = "done") =>
          (author_entries = << >> \/ ai > Len(author_entries))

-----------------------------------------------------------------------------
(* Properties of checkpoints and restarts *)

\* C20: after the script was started again, no work is fetched that the last
\* checkpoint written before the interrupt records as processed.
C20_CheckpointedWorkNotFetchedAgain ==
    (script = "download" /\ restarts >= 1 /\ pc \in { "dl_get", "dl_await" }) =>
        works_processed >= checkpoints[Len(checkpoints)].works_processed

-----------------------------------------------------------------------------
(* Properties of the reference's work title *)

\* the (author ID, work ID) pair is in the work-title table
InTitleTable(a, w) == a \in DOMAIN WORK_MAPPINGS /\ w \in DOMAIN WORK_MAPPINGS[a]

\* the reference of the call has been built
ReferenceBuilt == script = "preserve" /\ pc \in { "validate", "done" }

\* C25: the work title of the reference is the title of the work-title table
\* when the (author ID, work ID) pair is in it; otherwise it is the title the
\* discovered work carries, and "Work " followed by the work ID only when the
\* discovered work carries no title.
C25_TitleFromTableElseGivenElseGeneric ==
    ReferenceBuilt =>
        tlg_reference.work_title =
            IF InTitleTable(author_data.tlg_id, work_data.work_id)
            THEN WORK_MAPPINGS[author_data.tlg_id][work_data.work_id].title
            ELSE IF "title" \in DOMAIN work_data THEN work_data.title
            ELSE "Work " \o work_data.work_id

\* a work outside the table that carries a title keeps it
C25_Witness ==
    /\ ReferenceBuilt
    /\ author_data.tlg_id = "0086"
    /\ work_data.work_id = "999"
    /\ "title" \in DOMAIN work_data
    /\ tlg_reference.work_title = "Ilias"

\* the statement without the title of the discovered work
C25_TitleFromTableElseGeneric ==
    ReferenceBuilt =>
        tlg_reference.work_title =
            IF InTitleTable(author_data.tlg_id, work_data.work_id)
            THEN WORK_MAPPINGS[author_data.tlg_id][work_data.work_id].title
            ELSE "Work " \o work_data.work_id

-----------------------------------------------------------------------------
(* Properties of the cost of one discover_author_works call *)

\* a candidate ID is being examined: one of its URLs is with fetch_page
Examining == pc \in { "fetch", "await", "ret" }

\* discover_author_works has left its loop
Returning == pc \in { "works_return", "done" }

\* only the IDs 1..max_works are examined, and none once the misses are 20
CandidatesBounded ==
    /\ work_id \in 1..(max_works + 1)
    /\ Examining => (work_id <= max_works /\ consecutive_misses < max_consecutive_misses)

\* two URLs per candidate, max_retries requests per URL
RequestsBounded == issued <= 2 * max_works * max_retries

\* the loop is left at the candidate that brought the 20th miss in a row, or
\* behind the last candidate, and only there
ReturnsAtTheLimit ==
    /\ consecutive_misses >= max_consecutive_misses => Returning
    /\ Returning => \/ /\ consecutive_misses = max_consecutive_misses
                       /\ work_id <= max_works
                    \/ /\ consecutive_misses < max_consecutive_misses
                       /\ work_id = max_works + 1

\* C26: discover_author_works returns whatever the server does; until then it
\* examines only candidate IDs in 1..max_works, sends at most
\* 2 * max_works * max_retries requests, and leaves its loop at the first
\* candidate where the 20th miss in a row or the end of the range is reached.
C26_ReturnsWithinBudget ==
    /\ [](CandidatesBounded /\ RequestsBounded /\ ReturnsAtTheLimit)
    /\ <>(pc = "done")

\* a call that used its whole budget: both works found at the last attempt
\* for the second URL
C26_Witness ==
    /\ issued # None
    /\ pc = "done"
    /\ max_works = 2
    /\ max_retries = MaxRetries
    /\ issued = 2 * max_works * max_retries
    /\ Len(works) = 2

-----------------------------------------------------------------------------
(* Properties of the list of discovered works *)

DecimalDigit == << "0", "1", "2", "3", "4", "5", "6", "7", "8", "9" >>

\* the three-digit numeral of n, for n below 1000
ThreeDigits(n) ==
    DecimalDigit[(n \div 100) + 1] \o DecimalDigit[((n \div 10) % 10) + 1]
        \o DecimalDigit[(n % 10) + 1]

\* id is the three-digit numeral of a number in 1..upto
IsWorkId(id, upto) == \E n \in 1..upto : id = ThreeDigits(n)

\* the number a work ID stands for
NumberOf(id, upto) == CHOOSE n \in 1..upto : id = ThreeDigits(n)

\* the IDs of the list are numerals of 1..upto, strictly increasing, none twice
InOrder(ws, upto) ==
    /\ \A i \in 1..Len(ws) : IsWorkId(ws[i].work_id, upto)
    /\ \A i \in 1..(Len(ws) - 1) :
          NumberOf(ws[i].work_id, upto) < NumberOf(ws[i + 1].work_id, upto)
    /\ \A i, j \in 1..Len(ws) : ws[i].work_id = ws[j].work_id => i = j

-----------------------------------------------------------------------------
(* Properties of repeated calls of extract_work_with_references *)

\* the calls that gave back an extraction
ExtractionCalls == { i \in 1..Len(returned) : returned[i].outcome = "extraction" }

\* the (author_id, work_id) pair of the extraction the i-th call gave back
ReturnedPair(i) ==
    << returned[i].value[1].tlg_reference.author_id,
       returned[i].value[1].tlg_reference.work_id >>

\* no pair was returned twice, and processed_works holds the keys of the
\* returned extractions and no other key
EachWorkReturnedOnce ==
    /\ \A i, j \in ExtractionCalls : ReturnedPair(i) = ReturnedPair(j) => i = j
    /\ \A i \in ExtractionCalls :
          returned[i].key = WorkKey(ReturnedPair(i)[1], ReturnedPair(i)[2])
    /\ processed_works = { returned[i].key : i \in ExtractionCalls }

\* a call for a key of processed_works gives back None and leaves the
\* counters and processed_works as they were
ProcessedKeyIsSkipped ==
    (/\ Len(returned') = Len(returned) + 1
     /\ returned'[Len(returned')].key \in processed_works)
    => /\ returned'[Len(returned')].outcome = "None"
       /\ stats' = stats
       /\ processed_works' = processed_works

\* C28: among the extractions the calls on one extractor gave back no
\* (author_id, work_id) pair occurs twice; processed_works holds exactly the
\* keys of the returned extractions, so a failed work is not in it; and a call
\* for a key in processed_works returns None and changes no counter.
C28_EachWorkExtractedOnce ==
    /\ []EachWorkReturnedOnce
    /\ [][ProcessedKeyIsSkipped]_vars

\* the same work three times: the fetch failed, then the extraction was
\* returned, then the call was skipped
C28_Witness ==
    /\ entry = "call"
    /\ Len(returned) = 3
    /\ \A i \in 1..3 : returned[i].key = "0012_001"
    /\ returned[1].outcome = "None"
    /\ returned[2].outcome = "extraction"
    /\ returned[3].outcome = "None"
    /\ stats = [successful_extractions |-> 1, failed_extractions |-> 1,
                validation_failures |-> 0]
    /\ processed_works = { "0012_001" }

-----------------------------------------------------------------------------
(* Properties of the partition into Greek text and metadata *)

\* the lines visited so far, stripped, without the blank ones
VisitedLines ==
    SelectSeq([i \in 1..li |-> Strip(Split(mixed_text)[i])], LAMBDA l : l # << >>)

\* all is g and m merged, each in its own order
RECURSIVE IsInterleaving(_, _, _)
IsInterleaving(g, m, all) ==
    IF all = << >> THEN g = << >> /\ m = << >>
    ELSE \/ /\ g # << >>
            /\ Head(g) = Head(all)
            /\ IsInterleaving(Tail(g), m, Tail(all))
         \/ /\ m # << >>
            /\ Head(m) = Head(all)
            /\ IsInterleaving(g, Tail(m), Tail(all))

\* the lines of a returned text
LinesOf(text) == IF text = << >> THEN << >> ELSE Split(text)

\* C29: the non-blank stripped lines visited so far are greek_lines and
\* metadata_lines merged, each in input order; no line is in both; no line
\* that matches a metadata pattern is among the Greek lines; and the returned
\* greek_text and metadata consist of exactly these lines.
C29_LinesArePartitioned ==
    (script = "filter") =>
        /\ IsInterleaving(greek_lines, metadata_lines, VisitedLines)
        /\ \A i \in 1..Len(greek_lines) : \A j \in 1..Len(metadata_lines) :
              greek_lines[i] # metadata_lines[j]
        /\ \A i \in 1..Len(greek_lines) :
              greek_lines[i] # << >> /\ ~is_metadata(greek_lines[i])
        /\ \A j \in 1..Len(metadata_lines) : metadata_lines[j] # << >>
        /\ pc = "done" =>
              /\ LinesOf(separated.greek_text) = greek_lines
              /\ LinesOf(separated.metadata) = metadata_lines

\* a long line of Greek letters that names the publisher went to the
\* metadata, and the blank line after it went nowhere
C29_Witness ==
    /\ script = "filter"
    /\ pc = "done"
    /\ mixed_text = GreekTen \o GreekTen \o << 84, 101, 117, 98, 110, 101, 114 >> \o << 10 >>
    /\ Len(Split(mixed_text)) = 2
    /\ LinesOf(separated.metadata)
          = << GreekTen \o GreekTen \o << 84, 101, 117, 98, 110, 101, 114 >> >>
    /\ separated.greek_text = << >>

-----------------------------------------------------------------------------
(* Properties of the round trip between work URLs and references *)

\* C30: parse_url_reference applied to a work URL the discoverer built for an
\* author of the index and a work number in 1..999 does not raise and returns
\* the author ID and the three-digit work ID the URL was built for.
C30_UrlRoundTrip ==
    (entry = "trip" /\ pc = "read_back") =>
        /\ url_reference.raised = ""
        /\ url_reference.author_id = built_for.tlg_id
        /\ url_reference.work_id = work_id_str(built_for.work_id)

-----------------------------------------------------------------------------
(* Properties of the duplicate cleanup *)

\* C21: without --execute on the command line, with or without --dry-run,
\* the files on disk are at every point those the run started with.
C21_DryRunDeletesNothing ==
    (script = "cleanup" /\ ~argv.execute) => disk = disk_before

\* --dry-run alone: two files were reported as removable and all four are
\* still there
C21_Witness ==
    /\ script = "cleanup"
    /\ pc = "done"
    /\ argv = [dry_run |-> TRUE, execute |-> FALSE]
    /\ Len(report) = 2
    /\ Cardinality(DOMAIN disk) = 4
    /\ disk = disk_before

\* the original of the group the loop is at
OriginalAtHand == analyze_duplicate_group(duplicate_groups[group_i + 1].files).original

\* a step deletes only files of the group at hand, other than its original,
\* while the original is on disk, stays there, and has the deleted file's size
DeletionIsSafe ==
    (DOMAIN disk' # DOMAIN disk) =>
        /\ pc = "groups"
        /\ group_i < Len(duplicate_groups)
        /\ \A p \in DOMAIN disk \ DOMAIN disk' :
              /\ \E i \in 1..Len(duplicate_groups[group_i + 1].files) :
                    duplicate_groups[group_i + 1].files[i] = p
              /\ p # OriginalAtHand
              /\ OriginalAtHand \in DOMAIN disk
              /\ OriginalAtHand \in DOMAIN disk'
              /\ disk[OriginalAtHand] = disk[p]

\* the original of every group is on disk
OriginalsRemain ==
    \A k \in 1..Len(duplicate_groups) :
        analyze_duplicate_group(duplicate_groups[k].files).original \in DOMAIN disk

\* C22: a file is deleted only while the original of its group, a different
\* file, is on disk with the same size; no original is ever deleted, so a
\* file of every group remains.
C22_DeletionKeepsTheOriginal ==
    /\ [][DeletionIsSafe]_vars
    /\ [](script = "cleanup" => OriginalsRemain)

\* two groups were cleaned: of four files the two originals are left
C22_Witness ==
    /\ script = "cleanup"
    /\ pc = "done"
    /\ argv.execute
    /\ Len(duplicate_groups) = 2
    /\ Cardinality(DOMAIN disk_before) = 4
    /\ Cardinality(DOMAIN disk) = 2
    /\ Len(report) = 2

\* C23: every file the script deletes or reports as removable has a name
\* that ends in " 2.xml" or "-2.xml".
C23_OnlyMacCopiesRemoved ==
    (script = "cleanup") =>
        /\ \A i \in 1..Len(report) : is_mac_copy(report[i])
        /\ \A p \in DOMAIN disk_before \ DOMAIN disk : is_mac_copy(p)

-----------------------------------------------------------------------------
(* Properties of the progress log *)

\* what may stand between two entries: line ends only
BlankLines == { << 10 >>, << 10, 10 >>, << 10, 10, 10 >> }

\* the texts that hold the entries of log one after the other, the last of
\* log first, with blank lines before, between and after them
RECURSIVE NewestFirst(_)
NewestFirst(log) ==
    IF log = << >> THEN { << >> }
    ELSE { log[Len(log)] \o gap \o rest :
              gap \in BlankLines, rest \in NewestFirst(SubSeq(log, 1, Len(log) - 1)) }

\* C24: the progress file is the header, then the entries of all calls so
\* far, the newest first, each as it was written, with only blank lines
\* between them.
C24_NewestFirstAndUnchanged ==
    (script = "progress" /\ entry_log # << >>) =>
        \E lead \in { << 10 >>, << 10, 10 >> } :
            \E body \in NewestFirst(entry_log) :
                progress_file = Join(HeaderLines) \o lead \o body

=============================================================================
